---- MODULE Spec2Model ----
(***************************************************************************)
(* A model of josehu07/flashsim's standalone layer:                        *)
(*   - the asynchronous throughput benchmark client                        *)
(*     (src/benchmark/lt-bench.cpp): submission queue, submission thread,  *)
(*     device log, the four benchmark loops and bench_clean_up;            *)
(*   - the simulator server (src/standalone/flashsim.cpp): request_loop    *)
(*     and its peer, a client shaped like src/standalone/client.cpp.       *)
(* The two programs are separate processes; each has its own               *)
(* specification (SpecBench, SpecServer) over its own variables.           *)
(***************************************************************************)
EXTENDS Integers, Sequences, FiniteSets, TLC

(***************************************************************************)
(* Bounds of the model.                                                    *)
(***************************************************************************)
\* Bytes per page.  PAGE_SIZE is a configuration value of the device
\* library (4096 in lt-bench.cpp); the model uses a small page.
PageBytes == 4
\* Pages of the benchmarked address space (FLASH_SPACE / PAGE_SIZE).
FlashPages == 2
\* Capacity of the device log (120000 in lt-bench.cpp).
MaxLogLength == 2
\* Entries the driver may push between two clears of the queue.
MaxPushes == 3
\* Intensity levels per benchmark (MAX_INTENSITY / INTENSITY_TICK).
NumLevels == 1
\* Clock ticks per second: the resolution of the modelled clock.
TicksPerSec == 1
\* The clock stops advancing at this tick: a run reaches the fill, the
\* sequential-read rounds and the start of the random-read benchmark.
MaxTime == 9
\* uint64_t arithmetic wraps at this modulus (stands for 2^64).
Uint64Modulus == 4096
\* Bytes of a 32-bit field on the wire and in the server (stands for 4).
Uint32Bytes == 1
\* Bytes of a 64-bit field and of a pointer (stands for 8).
Uint64Bytes == 2
\* Requests (headers or parts of one) all clients send to one server.
MaxRequests == 3
\* Connections one server process sees.
MaxConnections == 2
\* The longest service time of the device, in microseconds.
MaxDeviceTimeUs == 2

(***************************************************************************)
(* Program constants of lt-bench.cpp.                                      *)
(***************************************************************************)
PAGE_SIZE == PageBytes
FLASH_SPACE == FlashPages * PAGE_SIZE
DEVICE_LOG_LENGTH == MaxLogLength
INTENSITY_TICK == 200
MAX_INTENSITY == NumLevels * INTENSITY_TICK
SECS_PER_ROUND == 5
DIR_READ == 0
DIR_WRITE == 1
\* The literal 1000000 (microseconds per second) in clock units.
US_PER_SEC == TicksPerSec
\* The literal 100000 of the driver's sampling threshold.
LOG_INTERVAL_MIN_US == US_PER_SEC \div 10
\* The literal 2000000 of bench_clean_up's cooldown.
CLEAN_UP_SLEEP_US == 2 * US_PER_SEC

U64(x) == x % Uint64Modulus

VARIABLES
    \* ---- lt-bench.cpp ----
    now,                \* the wall clock, gettimeofday() minus boot_time
    submit_queue,       \* std::deque<req_entry>
    submit_queue_lock,  \* std::mutex: "none" or the holding thread
    cv_waiting,         \* the submission thread is suspended on submit_queue_cv
    cv_notified,        \* a notify_all() reached the suspended thread
    device_log,         \* std::deque<log_entry>
    device_log_lock,    \* std::mutex: "none" or the holding thread
    m_pc,               \* main thread: position
    m,                  \* main thread: locals of the running benchmark
    t_pc,               \* submission thread: position
    t,                  \* submission thread: locals of _submit_thread_func
    pushed,             \* history: entries pushed since the last clear
    popped,             \* history: entries dequeued since the last clear
    logged,             \* history: entries appended to the log since then
    in_flight,          \* history: the entry the thread is working on
    \* ---- flashsim.cpp ----
    PAGE_ENABLE_DATA,   \* configuration: payload data is exchanged
    ssd_handle,         \* the device: its written pages
    s_pc,               \* server: position in main / request_loop
    s,                  \* server: locals of one request_loop iteration
    csock,              \* the connection: "none", "pending" or "open"
    sys,                \* server process: error message and exit status
    ssock,              \* the listening socket: "listening" or "closed"
    sock_file,          \* the socket file sock_name exists
    c2s,                \* bytes sent by the client, not yet read
    s2c,                \* bytes sent by the server, not yet read
    c_pc,               \* client: position
    c,                  \* client: locals of the request in progress
    nreq,               \* requests the clients have sent so far
    nconn,              \* connections made so far
    reqs,               \* history: headers received on this connection
    c_hist,             \* history: requests the clients saw completed
    \* ---- functions applied on their own ----
    call_pc,            \* "idle", "call" or "returned"
    call_args,          \* the function and its arguments
    call_ret            \* its result

bench_vars == <<now, submit_queue, submit_queue_lock, cv_waiting, cv_notified,
                device_log, device_log_lock, m_pc, m, t_pc, t, pushed, popped,
                logged, in_flight>>

server_vars == <<PAGE_ENABLE_DATA, ssd_handle, s_pc, s, csock, sys, ssock,
                 sock_file, c2s, s2c, c_pc, c, nreq, nconn, reqs, c_hist>>

call_vars == <<call_pc, call_args, call_ret>>

vars == <<bench_vars, server_vars, call_vars>>

(***************************************************************************)
(* Device log (lt-bench.cpp 122-181).                                      *)
(***************************************************************************)
\* Mutant of log_entry: the two times are stored in each other's field.
log_entry_swapped(start_time_us, finish_time_us, bytes) ==
    [start_time_us |-> finish_time_us, finish_time_us |-> start_time_us,
     bytes |-> bytes]

log_entry(start_time_us, finish_time_us, bytes) ==
    [start_time_us |-> start_time_us, finish_time_us |-> finish_time_us,
     bytes |-> bytes]

\* Mutant of log_push_entry: the eviction removes the newest entry.
log_push_entry_pop_back(log, start_time_us, finish_time_us, bytes) ==
    LET appended == Append(log, log_entry(start_time_us, finish_time_us, bytes))
    IN  IF Len(appended) > DEVICE_LOG_LENGTH
        THEN SubSeq(appended, 1, Len(appended) - 1) ELSE appended

\* Mutant of log_push_entry: the entry is inserted at the front of the log.
log_push_entry_push_front(log, start_time_us, finish_time_us, bytes) ==
    LET prepended ==
            <<log_entry(start_time_us, finish_time_us, bytes)>> \o log
    IN  IF Len(prepended) > DEVICE_LOG_LENGTH
        THEN SubSeq(prepended, 1, Len(prepended) - 1) ELSE prepended

\* device_log.push_back(entry); if (device_log.size() > DEVICE_LOG_LENGTH)
\*     device_log.pop_front();
log_push_entry(log, start_time_us, finish_time_us, bytes) ==
    LET appended == Append(log, log_entry(start_time_us, finish_time_us, bytes))
    IN  IF Len(appended) > DEVICE_LOG_LENGTH THEN Tail(appended) ELSE appended

\* The backward scan of log_query_throughput from position i down to 1.
\* kilobytes is kept as the exact number of 1/1024 KB (bytes / 1024.0 is an
\* exact double for a uint32_t, and so are the sums of the model).
RECURSIVE log_query_scan(_, _, _, _, _)
log_query_scan(log, i, begin_time_us, end_time_us, kilobytes) ==
    IF i = 0 THEN kilobytes
    ELSE IF log[i].finish_time_us <= begin_time_us THEN kilobytes
    ELSE log_query_scan(log, i - 1, begin_time_us, end_time_us,
                        IF log[i].finish_time_us <= end_time_us
                        THEN kilobytes + log[i].bytes
                        ELSE kilobytes)

\* Mutant of log_query_throughput: the scan stops at the first entry that
\* finished after the window instead of skipping it.
RECURSIVE log_query_scan_stop_late(_, _, _, _, _)
log_query_scan_stop_late(log, i, begin_time_us, end_time_us, kilobytes) ==
    IF i = 0 THEN kilobytes
    ELSE IF log[i].finish_time_us <= begin_time_us THEN kilobytes
    ELSE IF log[i].finish_time_us > end_time_us THEN kilobytes
    ELSE log_query_scan_stop_late(log, i - 1, begin_time_us, end_time_us,
                                  kilobytes + log[i].bytes)

log_query_throughput_stop_late(log, begin_time_us, end_time_us) ==
    [num |-> log_query_scan_stop_late(log, Len(log), begin_time_us,
                                      end_time_us, 0) * US_PER_SEC,
     den |-> 1024 * U64(end_time_us - begin_time_us)]

\* return (kilobytes * 1000000) / (end_time_us - begin_time_us);
\* The double result is the rational num / den (den = 0: the division by
\* zero of the double arithmetic, inf or NaN).
log_query_throughput(log, begin_time_us, end_time_us) ==
    [num |-> log_query_scan(log, Len(log), begin_time_us, end_time_us, 0)
             * US_PER_SEC,
     den |-> 1024 * U64(end_time_us - begin_time_us)]

(***************************************************************************)
(* Submission queue entries (lt-bench.cpp 76-90).                          *)
(***************************************************************************)
req_entry(direction, addr, size, start_time_us) ==
    [direction |-> direction, addr |-> addr, size |-> size,
     start_time_us |-> start_time_us]

\* Mutant of queue_push_back: the entry is inserted at the head.
queue_push_front(queue, entry) == <<entry>> \o queue

\* submit_queue.push_back(entry)
queue_push_back(queue, entry) == Append(queue, entry)

\* submit_queue.front()
queue_front(queue) == Head(queue)

\* submit_queue.pop_front()
queue_pop_front(queue) == Tail(queue)

\* uint64_t get_cur_time_us(): boot_time is the origin of the clock.
get_cur_time_us == now

\* The locals of main and of the running bench_* function.  throughputs
\* is the std::vector<double> of the round; sleep is the wake-up time of the
\* running usleep().
MainLocals0 ==
    [bench |-> 0, intensity |-> 0, addr |-> 0, fill_i |-> 0,
     delta_us |-> 0, base_time_us |-> 0, cur_time_us |-> 0,
     log_interval_us |-> 0, throughputs |-> << >>,
     entry |-> req_entry(0, 0, 0, 0), wake |-> 0]

\* The locals of _submit_thread_func, the finish time passed to
\* log_push_entry, and the wake-up time of the running usleep().
ThreadLocals0 ==
    [direction |-> 0, addr |-> 0, size |-> 0, start_time_us |-> 0,
     finish_time_us |-> 0, wake |-> 0]

\* History record of the entry the submission thread has dequeued and not
\* yet logged: how many times its header was sent, whether its reply was
\* read and its usleep() has returned.
NoRequest ==
    [entry |-> req_entry(0, 0, 0, 0), dequeued |-> FALSE, sends |-> 0,
     replied |-> FALSE, slept |-> FALSE]

\* The whole process ends (exit(), or main returning): both threads stop
\* and the memory of the process is gone.
ProcessExit ==
    /\ m_pc' = "exited"
    /\ t_pc' = "exited"
    /\ m' = MainLocals0
    /\ t' = ThreadLocals0
    /\ submit_queue' = << >>
    /\ device_log' = << >>
    /\ submit_queue_lock' = "none"
    /\ device_log_lock' = "none"
    /\ cv_waiting' = FALSE
    /\ cv_notified' = FALSE
    /\ pushed' = << >>
    /\ popped' = << >>
    /\ logged' = << >>
    /\ in_flight' = NoRequest
    /\ now' = now

(***************************************************************************)
(* The benchmarks, run by main in this order (lt-bench.cpp 640-643).       *)
(***************************************************************************)
BENCH_SEQ_READ == 1
BENCH_RND_READ == 2
BENCH_SEQ_WRITE == 3
BENCH_RND_WRITE == 4

bench_direction(bench) ==
    IF bench \in {BENCH_SEQ_READ, BENCH_RND_READ} THEN DIR_READ ELSE DIR_WRITE

bench_is_seq(bench) == bench \in {BENCH_SEQ_READ, BENCH_SEQ_WRITE}

\* The values of std::uniform_int_distribution(0, FLASH_SPACE / PAGE_SIZE).
addr_dist == 0 .. (FLASH_SPACE \div PAGE_SIZE)

\* Mutant of BenchStart: the submission thread is created before the
\* device is filled.
BenchStart_thread_first ==
    /\ now = 0
    /\ submit_queue = << >>
    /\ submit_queue_lock = "none"
    /\ cv_waiting = FALSE
    /\ cv_notified = FALSE
    /\ device_log = << >>
    /\ device_log_lock = "none"
    /\ m_pc = "fill"
    /\ m = MainLocals0
    /\ t_pc = "acquire"
    /\ t = ThreadLocals0
    /\ pushed = << >>
    /\ popped = << >>
    /\ logged = << >>
    /\ in_flight = NoRequest

\* The benchmark process right after its start.
BenchStart ==
    /\ now = 0
    /\ submit_queue = << >>
    /\ submit_queue_lock = "none"
    /\ cv_waiting = FALSE
    /\ cv_notified = FALSE
    /\ device_log = << >>
    /\ device_log_lock = "none"
    /\ m_pc = "fill"
    /\ m = MainLocals0
    /\ t_pc = "not_started"
    /\ t = ThreadLocals0
    /\ pushed = << >>
    /\ popped = << >>
    /\ logged = << >>
    /\ in_flight = NoRequest

(***************************************************************************)
(* The clock (gettimeofday), non-decreasing.                               *)
(***************************************************************************)
\* now is the latest time any thread has observed.  Time passes between
\* the steps of the threads: a step that reads the clock finds it at any
\* later value, and a usleep() returns no earlier than its wake-up time.
ClockRead == now .. MaxTime

wake_time(wake) == IF wake > now THEN wake ELSE now

(***************************************************************************)
(* _submit_write / _submit_read (lt-bench.cpp 203-277), as run by a        *)
(* thread: the guard, then the request on the socket, then the reply.      *)
(***************************************************************************)
\* Mutant of submit_args_valid: no check of the arguments.
submit_args_unchecked(addr, size) == TRUE

\* if (addr % PAGE_SIZE != 0 || size <= 0) error(...)
submit_args_valid(addr, size) == ~(addr % PAGE_SIZE # 0 \/ size <= 0)

\* The processing times (time_used_us, in clock units) a reply may carry.
MaxServiceTime == 1
TimeUsedValues == 0 .. MaxServiceTime

(***************************************************************************)
(* main: bench_fill_device (lt-bench.cpp 602-613).                         *)
(***************************************************************************)
\* for (i...) { addr = i * PAGE_SIZE; _submit_write(addr, PAGE_SIZE, now):
\* the guard and the two write() calls.
FillSubmit ==
    /\ m_pc = "fill"
    /\ UNCHANGED <<server_vars, call_vars>>
    /\ m.fill_i < FLASH_SPACE \div PAGE_SIZE
    /\ IF submit_args_valid(m.fill_i * PAGE_SIZE, PAGE_SIZE)
       THEN /\ m_pc' = "fill_recv"
            /\ m' = [m EXCEPT !.addr = m.fill_i * PAGE_SIZE]
            /\ UNCHANGED <<now, submit_queue, submit_queue_lock, cv_waiting,
                           cv_notified, device_log, device_log_lock, t_pc, t,
                           pushed, popped, logged, in_flight>>
       ELSE ProcessExit

\* rbytes = read(ssock, &time_used_us, 8); usleep(time_used_us); ++i
FillRecv ==
    /\ m_pc = "fill_recv"
    /\ UNCHANGED <<server_vars, call_vars>>
    /\ \E time_used_us \in TimeUsedValues :
          m' = [m EXCEPT !.wake = now + time_used_us]
    /\ m_pc' = "fill_usleep"
    /\ UNCHANGED <<now, submit_queue, submit_queue_lock, cv_waiting,
                   cv_notified, device_log, device_log_lock, t_pc, t, pushed,
                   popped, logged, in_flight>>

FillWake ==
    /\ m_pc = "fill_usleep"
    /\ UNCHANGED <<server_vars, call_vars>>
    /\ wake_time(m.wake) <= MaxTime
    /\ now' = wake_time(m.wake)
    /\ m' = [m EXCEPT !.fill_i = m.fill_i + 1, !.wake = 0]
    /\ m_pc' = "fill"
    /\ UNCHANGED <<submit_queue, submit_queue_lock, cv_waiting,
                   cv_notified, device_log, device_log_lock, t_pc, t, pushed,
                   popped, logged, in_flight>>

\* rbytes != 8 (or a failed write()): error() -> exit(1).
FillFail ==
    /\ m_pc = "fill_recv"
    /\ UNCHANGED <<server_vars, call_vars>>
    /\ ProcessExit

\* The loop of bench_fill_device ends: bench_clean_up() is called.
FillDone ==
    /\ m_pc = "fill"
    /\ UNCHANGED <<server_vars, call_vars>>
    /\ ~(m.fill_i < FLASH_SPACE \div PAGE_SIZE)
    /\ m_pc' = "clean_up_usleep"
    /\ m' = [m EXCEPT !.wake = now + CLEAN_UP_SLEEP_US]
    /\ UNCHANGED <<now, submit_queue, submit_queue_lock, cv_waiting,
                   cv_notified, device_log, device_log_lock, t_pc, t, pushed,
                   popped, logged, in_flight>>

(***************************************************************************)
(* main: bench_clean_up (lt-bench.cpp 323-334).                            *)
(***************************************************************************)
\* Mutant of CleanUpLock: the two locks are taken one after the other,
\* submit_queue_lock first.
CleanUpLock_one_by_one ==
    /\ m_pc = "clean_up_usleep"
    /\ UNCHANGED <<server_vars, call_vars>>
    /\ wake_time(m.wake) <= MaxTime
    /\ now' = wake_time(m.wake)
    /\ \/ /\ submit_queue_lock = "none"
          /\ submit_queue_lock' = "main"
          /\ UNCHANGED <<device_log_lock, m, m_pc>>
       \/ /\ submit_queue_lock = "main"
          /\ device_log_lock = "none"
          /\ device_log_lock' = "main"
          /\ m' = [m EXCEPT !.wake = 0]
          /\ m_pc' = "clean_up_clear"
          /\ UNCHANGED submit_queue_lock
    /\ UNCHANGED <<submit_queue, cv_waiting, cv_notified, device_log,
                   t_pc, t, pushed, popped, logged, in_flight>>

\* usleep(2000000) is over; std::lock(lk1, lk2) returns holding both locks
\* (it holds neither while it waits for one of them).
CleanUpLock ==
    /\ m_pc = "clean_up_usleep"
    /\ UNCHANGED <<server_vars, call_vars>>
    /\ wake_time(m.wake) <= MaxTime
    /\ now' = wake_time(m.wake)
    /\ submit_queue_lock = "none"
    /\ device_log_lock = "none"
    /\ submit_queue_lock' = "main"
    /\ device_log_lock' = "main"
    /\ m' = [m EXCEPT !.wake = 0]
    /\ m_pc' = "clean_up_clear"
    /\ UNCHANGED <<submit_queue, cv_waiting, cv_notified, device_log,
                   t_pc, t, pushed, popped, logged, in_flight>>

\* What follows a bench_clean_up(): the thread start after the fill, the
\* next intensity level, the next benchmark, or the return of main.
after_clean_up(mm) ==
    IF mm.bench = 0 THEN "spawn"
    ELSE IF mm.intensity + INTENSITY_TICK <= MAX_INTENSITY THEN "round_init"
    ELSE IF mm.bench < BENCH_RND_WRITE THEN "bench_init"
    ELSE "return"

\* submit_queue.clear(); device_log.clear(); both locks released on return.
\* Back in the caller: intensity += INTENSITY_TICK, or the next benchmark;
\* after the last benchmark main returns 0 and the process ends, the
\* detached thread with it.
CleanUpClear ==
    /\ m_pc = "clean_up_clear"
    /\ UNCHANGED <<server_vars, call_vars>>
    /\ \/ /\ after_clean_up(m) = "return"
          /\ ProcessExit
       \/ /\ after_clean_up(m) # "return"
          /\ submit_queue' = << >>
          /\ device_log' = << >>
          /\ submit_queue_lock' = "none"
          /\ device_log_lock' = "none"
          /\ pushed' = << >>
          /\ popped' = << >>
          /\ logged' = << >>
          /\ m_pc' = after_clean_up(m)
          /\ m' = CASE after_clean_up(m) = "round_init" ->
                          [m EXCEPT !.intensity = m.intensity + INTENSITY_TICK]
                    [] after_clean_up(m) = "bench_init" ->
                          [m EXCEPT !.bench = m.bench + 1]
                    [] OTHER -> m
          /\ UNCHANGED <<now, cv_waiting, cv_notified, t_pc, t, in_flight>>

(***************************************************************************)
(* main (lt-bench.cpp 636-645) and the benchmark loops (339-596).          *)
(***************************************************************************)
\* std::thread submit_thread(_submit_thread_func); submit_thread.detach();
\* then bench_seq_read() is entered.
SpawnThread ==
    /\ m_pc = "spawn"
    /\ UNCHANGED <<server_vars, call_vars>>
    /\ t_pc' = "acquire"
    /\ m_pc' = "bench_init"
    /\ m' = [m EXCEPT !.bench = BENCH_SEQ_READ]
    /\ UNCHANGED <<now, submit_queue, submit_queue_lock, cv_waiting,
                   cv_notified, device_log, device_log_lock, t, pushed, popped, logged, in_flight>>

\* Entry of a bench_* function: unsigned long addr = 0 (sequential ones),
\* intensity = INTENSITY_TICK.
BenchInit ==
    /\ m_pc = "bench_init"
    /\ UNCHANGED <<server_vars, call_vars>>
    /\ m' = [m EXCEPT !.addr = 0, !.intensity = INTENSITY_TICK]
    /\ m_pc' = "round_init"
    /\ UNCHANGED <<now, submit_queue, submit_queue_lock, cv_waiting,
                   cv_notified, device_log, device_log_lock, t_pc, t, pushed,
                   popped, logged, in_flight>>

\* delta_us = 1000000 / intensity; base_time_us = get_cur_time_us();
\* cur_time_us = base_time_us; log_interval_us = 0; throughputs empty.
RoundInit ==
    /\ m_pc = "round_init"
    /\ UNCHANGED <<server_vars, call_vars>>
    /\ now' \in ClockRead
    /\ m' = [m EXCEPT !.delta_us = US_PER_SEC \div m.intensity,
                      !.base_time_us = get_cur_time_us',
                      !.cur_time_us = get_cur_time_us',
                      !.log_interval_us = 0,
                      !.throughputs = << >>]
    /\ m_pc' = "iterate"
    /\ UNCHANGED <<submit_queue, submit_queue_lock, cv_waiting,
                   cv_notified, device_log, device_log_lock, t_pc, t, pushed,
                   popped, logged, in_flight>>

\* Mutant of iterate_locals: window time accumulates only after the end of
\* the round's SECS_PER_ROUND seconds.
iterate_locals_late_mark(mm, new_time_us, page) ==
    LET interval ==
            IF U64(new_time_us - mm.base_time_us)
                  > US_PER_SEC * SECS_PER_ROUND
            THEN U64(mm.log_interval_us + U64(new_time_us - mm.cur_time_us))
            ELSE mm.log_interval_us
    IN  [mm EXCEPT
            !.entry = req_entry(bench_direction(mm.bench),
                                IF bench_is_seq(mm.bench) THEN mm.addr
                                ELSE PAGE_SIZE * page,
                                PAGE_SIZE, new_time_us),
            !.log_interval_us = interval,
            !.cur_time_us = new_time_us]

\* The head of the do-loop body (359-372): the entry, the window time.
\* page is the value drawn from addr_dist (random benchmarks only).
iterate_locals(mm, new_time_us, page) ==
    LET interval ==
            IF U64(new_time_us - mm.base_time_us) >= US_PER_SEC
            THEN U64(mm.log_interval_us + U64(new_time_us - mm.cur_time_us))
            ELSE mm.log_interval_us
    IN  [mm EXCEPT
            !.entry = req_entry(bench_direction(mm.bench),
                                IF bench_is_seq(mm.bench) THEN mm.addr
                                ELSE PAGE_SIZE * page,
                                PAGE_SIZE, new_time_us),
            !.log_interval_us = interval,
            !.cur_time_us = new_time_us]

\* Mutant of Iterate: the query is made when log_interval_us has reached
\* the threshold (>=), not when it has passed it.
Iterate_query_at_threshold ==
    /\ m_pc = "iterate"
    /\ UNCHANGED <<server_vars, call_vars>>
    /\ now' \in ClockRead
    /\ \E page \in (IF bench_is_seq(m.bench) THEN {0} ELSE addr_dist) :
          m' = iterate_locals(m, get_cur_time_us', page)
    /\ m_pc' = IF m'.log_interval_us >= LOG_INTERVAL_MIN_US
               THEN "query" ELSE "push"
    /\ UNCHANGED <<submit_queue, submit_queue_lock, cv_waiting,
                   cv_notified, device_log, device_log_lock, t_pc, t, pushed,
                   popped, logged, in_flight>>

Iterate ==
    /\ m_pc = "iterate"
    /\ UNCHANGED <<server_vars, call_vars>>
    /\ now' \in ClockRead
    /\ \E page \in (IF bench_is_seq(m.bench) THEN {0} ELSE addr_dist) :
          m' = iterate_locals(m, get_cur_time_us', page)
    /\ m_pc' = IF m'.log_interval_us > LOG_INTERVAL_MIN_US
               THEN "query" ELSE "push"
    /\ UNCHANGED <<submit_queue, submit_queue_lock, cv_waiting,
                   cv_notified, device_log, device_log_lock, t_pc, t, pushed,
                   popped, logged, in_flight>>

\* Mutant of QueryLock: the scan is entered without taking device_log_lock.
QueryLock_unlocked ==
    /\ m_pc = "query"
    /\ UNCHANGED <<server_vars, call_vars>>
    /\ m_pc' = "query_scan"
    /\ UNCHANGED <<now, submit_queue, submit_queue_lock, cv_waiting,
                   cv_notified, device_log, device_log_lock, m, t_pc, t,
                   pushed, popped, logged, in_flight>>

\* log_query_throughput: std::lock_guard lk(device_log_lock)
QueryLock ==
    /\ m_pc = "query"
    /\ UNCHANGED <<server_vars, call_vars>>
    /\ device_log_lock = "none"
    /\ device_log_lock' = "main"
    /\ m_pc' = "query_scan"
    /\ UNCHANGED <<now, submit_queue, submit_queue_lock, cv_waiting,
                   cv_notified, device_log, m, t_pc, t, pushed, popped, logged, in_flight>>

\* The scan and the return; throughputs.push_back(...); log_interval_us = 0
QueryScan ==
    /\ m_pc = "query_scan"
    /\ UNCHANGED <<server_vars, call_vars>>
    /\ m' = [m EXCEPT
                !.throughputs =
                    Append(m.throughputs,
                           log_query_throughput(
                               device_log,
                               U64(m.cur_time_us - m.log_interval_us),
                               m.cur_time_us)),
                !.log_interval_us = 0]
    /\ device_log_lock' = "none"
    /\ m_pc' = "push"
    /\ UNCHANGED <<now, submit_queue, submit_queue_lock, cv_waiting,
                   cv_notified, device_log, t_pc, t, pushed, popped, logged, in_flight>>

\* std::lock_guard lk(submit_queue_lock)
PushLock ==
    /\ m_pc = "push"
    /\ UNCHANGED <<server_vars, call_vars>>
    /\ Len(pushed) < MaxPushes
    /\ submit_queue_lock = "none"
    /\ submit_queue_lock' = "main"
    /\ m_pc' = "push_back"
    /\ UNCHANGED <<now, submit_queue, cv_waiting, cv_notified, device_log,
                   device_log_lock, m, t_pc, t, pushed, popped, logged, in_flight>>

\* Mutant of PushBack: the entry is appended without notify_all().
PushBack_no_notify ==
    /\ m_pc = "push_back"
    /\ UNCHANGED <<server_vars, call_vars>>
    /\ submit_queue' = queue_push_back(submit_queue, m.entry)
    /\ pushed' = Append(pushed, m.entry)
    /\ submit_queue_lock' = "none"
    /\ m' = [m EXCEPT !.wake = now + m.delta_us,
                      !.entry = req_entry(0, 0, 0, 0)]
    /\ m_pc' = "usleep"
    /\ UNCHANGED <<now, cv_waiting, cv_notified, device_log, device_log_lock,
                   t_pc, t, popped, logged, in_flight>>

\* submit_queue.push_back(entry); submit_queue_cv.notify_all(); unlock;
\* usleep(delta_us) begins.  entry goes out of scope.
PushBack ==
    /\ m_pc = "push_back"
    /\ UNCHANGED <<server_vars, call_vars>>
    /\ submit_queue' = queue_push_back(submit_queue, m.entry)
    /\ pushed' = Append(pushed, m.entry)
    /\ cv_notified' = cv_waiting
    /\ submit_queue_lock' = "none"
    /\ m' = [m EXCEPT !.wake = now + m.delta_us,
                      !.entry = req_entry(0, 0, 0, 0)]
    /\ m_pc' = "usleep"
    /\ UNCHANGED <<now, cv_waiting, device_log, device_log_lock, t_pc, t,
                   popped, logged, in_flight>>

\* The address after a request of a sequential benchmark.
next_seq_addr(addr) == (addr + PAGE_SIZE) % FLASH_SPACE

\* usleep(delta_us) returns; addr = (addr + PAGE_SIZE) % FLASH_SPACE
\* (sequential); while (cur_time_us < base_time_us + 1000000 * SECS_PER_ROUND)
Wake ==
    /\ m_pc = "usleep"
    /\ UNCHANGED <<server_vars, call_vars>>
    /\ wake_time(m.wake) <= MaxTime
    /\ now' = wake_time(m.wake)
    /\ m' = [m EXCEPT !.addr = IF bench_is_seq(m.bench)
                               THEN next_seq_addr(m.addr) ELSE m.addr,
                      !.wake = 0]
    /\ m_pc' = IF m.cur_time_us
                    < U64(m.base_time_us + US_PER_SEC * SECS_PER_ROUND)
               THEN "iterate" ELSE "round_end"
    /\ UNCHANGED <<submit_queue, submit_queue_lock, cv_waiting,
                   cv_notified, device_log, device_log_lock, t_pc, t, pushed,
                   popped, logged, in_flight>>

\* avg_throughput is computed and printed; bench_clean_up() is called.
RoundEnd ==
    /\ m_pc = "round_end"
    /\ UNCHANGED <<server_vars, call_vars>>
    /\ m_pc' = "clean_up_usleep"
    /\ m' = [m EXCEPT !.wake = now + CLEAN_UP_SLEEP_US]
    /\ UNCHANGED <<now, submit_queue, submit_queue_lock, cv_waiting,
                   cv_notified, device_log, device_log_lock, t_pc, t, pushed,
                   popped, logged, in_flight>>

(***************************************************************************)
(* The submission thread: _submit_thread_func (lt-bench.cpp 282-317).      *)
(***************************************************************************)
\* std::unique_lock lk(submit_queue_lock), and the re-lock after a wait.
ThreadLock ==
    /\ t_pc = "acquire"
    /\ UNCHANGED <<server_vars, call_vars>>
    /\ submit_queue_lock = "none"
    /\ submit_queue_lock' = "submit"
    /\ t_pc' = "locked"
    /\ UNCHANGED <<now, submit_queue, cv_waiting, cv_notified, device_log,
                   device_log_lock, m_pc, m, t, pushed, popped, logged, in_flight>>

\* The predicate of submit_queue_cv.wait(lk, ...)
wait_predicate(queue) == Len(queue) > 0

\* The predicate is false: wait() releases the lock and suspends.
ThreadWait ==
    /\ t_pc = "locked"
    /\ UNCHANGED <<server_vars, call_vars>>
    /\ ~wait_predicate(submit_queue)
    /\ submit_queue_lock' = "none"
    /\ cv_waiting' = TRUE
    /\ cv_notified' = FALSE
    /\ t_pc' = "wait"
    /\ UNCHANGED <<now, submit_queue, device_log, device_log_lock, m_pc, m, t,
                   pushed, popped, logged, in_flight>>

\* notify_all() wakes the thread: it goes to re-acquire the lock.
ThreadNotified ==
    /\ t_pc = "wait"
    /\ UNCHANGED <<server_vars, call_vars>>
    /\ cv_notified
    /\ cv_waiting' = FALSE
    /\ cv_notified' = FALSE
    /\ t_pc' = "acquire"
    /\ UNCHANGED <<now, submit_queue, submit_queue_lock, device_log,
                   device_log_lock, m_pc, m, t, pushed, popped, logged, in_flight>>

\* A condition variable may wake without a notification.
ThreadSpuriousWake ==
    /\ t_pc = "wait"
    /\ UNCHANGED <<server_vars, call_vars>>
    /\ ~cv_notified
    /\ cv_waiting' = FALSE
    /\ t_pc' = "acquire"
    /\ UNCHANGED <<now, submit_queue, submit_queue_lock, cv_notified,
                   device_log, device_log_lock, m_pc, m, t, pushed, popped, logged, in_flight>>

\* Mutant of ThreadExtract: the head is taken without the wait on the
\* predicate, whatever the queue holds.
ThreadExtract_unchecked ==
    /\ t_pc = "locked"
    /\ UNCHANGED <<server_vars, call_vars>>
    /\ LET head == IF submit_queue = << >> THEN req_entry(0, 0, 0, 0)
                   ELSE queue_front(submit_queue)
       IN  /\ t' = [t EXCEPT !.direction = head.direction,
                             !.addr = head.addr,
                             !.size = head.size,
                             !.start_time_us = head.start_time_us]
           /\ popped' = Append(popped, head)
           /\ in_flight' = [NoRequest EXCEPT !.entry = head,
                                             !.dequeued = TRUE]
    /\ submit_queue' = IF submit_queue = << >> THEN << >>
                       ELSE queue_pop_front(submit_queue)
    /\ submit_queue_lock' = "none"
    /\ t_pc' = "submit"
    /\ UNCHANGED <<now, cv_waiting, cv_notified, device_log, device_log_lock,
                   m_pc, m, pushed, logged>>

\* Mutant of ThreadExtract: front() is copied, pop_front() is left out.
ThreadExtract_no_pop ==
    /\ t_pc = "locked"
    /\ UNCHANGED <<server_vars, call_vars>>
    /\ wait_predicate(submit_queue)
    /\ t' = [t EXCEPT !.direction = queue_front(submit_queue).direction,
                      !.addr = queue_front(submit_queue).addr,
                      !.size = queue_front(submit_queue).size,
                      !.start_time_us = queue_front(submit_queue).start_time_us]
    /\ popped' = Append(popped, queue_front(submit_queue))
    /\ in_flight' = [NoRequest EXCEPT !.entry = queue_front(submit_queue),
                                      !.dequeued = TRUE]
    /\ submit_queue_lock' = "none"
    /\ t_pc' = "submit"
    /\ UNCHANGED <<now, submit_queue, cv_waiting, cv_notified, device_log,
                   device_log_lock, m_pc, m, pushed, logged>>

\* Mutant of ThreadExtract: the queue lock is kept after the block.
ThreadExtract_keeps_lock ==
    /\ t_pc = "locked"
    /\ UNCHANGED <<server_vars, call_vars>>
    /\ wait_predicate(submit_queue)
    /\ t' = [t EXCEPT !.direction = queue_front(submit_queue).direction,
                      !.addr = queue_front(submit_queue).addr,
                      !.size = queue_front(submit_queue).size,
                      !.start_time_us = queue_front(submit_queue).start_time_us]
    /\ popped' = Append(popped, queue_front(submit_queue))
    /\ submit_queue' = queue_pop_front(submit_queue)
    /\ in_flight' = [NoRequest EXCEPT !.entry = queue_front(submit_queue),
                                      !.dequeued = TRUE]
    /\ t_pc' = "submit"
    /\ UNCHANGED <<now, submit_queue_lock, cv_waiting, cv_notified,
                   device_log, device_log_lock, m_pc, m, pushed, logged>>

\* The predicate is true: the four fields of front() are copied,
\* pop_front(), and the lock is released at the end of the block.
ThreadExtract ==
    /\ t_pc = "locked"
    /\ UNCHANGED <<server_vars, call_vars>>
    /\ wait_predicate(submit_queue)
    /\ t' = [t EXCEPT !.direction = queue_front(submit_queue).direction,
                      !.addr = queue_front(submit_queue).addr,
                      !.size = queue_front(submit_queue).size,
                      !.start_time_us = queue_front(submit_queue).start_time_us]
    /\ popped' = Append(popped, req_entry(t'.direction, t'.addr, t'.size,
                                          t'.start_time_us))
    /\ submit_queue' = queue_pop_front(submit_queue)
    /\ in_flight' = [NoRequest EXCEPT !.entry = queue_front(submit_queue),
                                      !.dequeued = TRUE]
    /\ submit_queue_lock' = "none"
    /\ t_pc' = "submit"
    /\ UNCHANGED <<now, cv_waiting, cv_notified, device_log, device_log_lock,
                   m_pc, m, pushed, logged>>

\* switch (direction): _submit_write / _submit_read: the guard and the
\* write() calls; any other direction submits nothing.
ThreadSubmit ==
    /\ t_pc = "submit"
    /\ UNCHANGED <<server_vars, call_vars>>
    /\ IF t.direction \in {DIR_WRITE, DIR_READ}
          /\ ~submit_args_valid(t.addr, t.size)
       THEN ProcessExit
       ELSE /\ t_pc' = IF t.direction \in {DIR_WRITE, DIR_READ}
                       THEN "recv" ELSE "usleep"
            /\ in_flight' =
                  IF t.direction \in {DIR_WRITE, DIR_READ}
                  THEN [in_flight EXCEPT !.sends = @ + 1] ELSE in_flight
            /\ UNCHANGED <<now, submit_queue, submit_queue_lock, cv_waiting,
                           cv_notified, device_log, device_log_lock, m_pc, m,
                           t, pushed, popped, logged>>

\* The reply is read (the data of a read, then time_used_us);
\* usleep(time_used_us) begins.
ThreadRecv ==
    /\ t_pc = "recv"
    /\ UNCHANGED <<server_vars, call_vars>>
    /\ \E time_used_us \in TimeUsedValues :
          t' = [t EXCEPT !.wake = now + time_used_us]
    /\ in_flight' = [in_flight EXCEPT !.replied = TRUE]
    /\ t_pc' = "usleep"
    /\ UNCHANGED <<now, submit_queue, submit_queue_lock, cv_waiting,
                   cv_notified, device_log, device_log_lock, m_pc, m, pushed,
                   popped, logged>>

\* A read() or write() of the exchange fails: error() -> exit(1).
ThreadFail ==
    /\ t_pc = "recv"
    /\ UNCHANGED <<server_vars, call_vars>>
    /\ ProcessExit

\* usleep() returns and _submit_* with it;
\* log_push_entry(start_time_us, get_cur_time_us(), size): the arguments
\* are evaluated, the entry is built (147-150).
ThreadLogArgs ==
    /\ t_pc = "usleep"
    /\ UNCHANGED <<server_vars, call_vars>>
    /\ now' \in wake_time(t.wake) .. MaxTime
    /\ t' = [t EXCEPT !.finish_time_us = get_cur_time_us', !.wake = 0]
    /\ in_flight' = [in_flight EXCEPT !.slept = TRUE]
    /\ t_pc' = "log_lock"
    /\ UNCHANGED <<submit_queue, submit_queue_lock, cv_waiting,
                   cv_notified, device_log, device_log_lock, m_pc, m, pushed,
                   popped, logged>>

\* std::lock_guard lk(device_log_lock)
ThreadLogLock ==
    /\ t_pc = "log_lock"
    /\ UNCHANGED <<server_vars, call_vars>>
    /\ device_log_lock = "none"
    /\ device_log_lock' = "submit"
    /\ t_pc' = "log_push"
    /\ UNCHANGED <<now, submit_queue, submit_queue_lock, cv_waiting,
                   cv_notified, device_log, m_pc, m, t, pushed, popped, logged, in_flight>>

\* push_back, the eviction, the unlock; back to the head of while (1),
\* where the four locals are dead until the next extraction.
ThreadLogPush ==
    /\ t_pc = "log_push"
    /\ UNCHANGED <<server_vars, call_vars>>
    /\ device_log' = log_push_entry(device_log, t.start_time_us,
                                    t.finish_time_us, t.size)
    /\ logged' = Append(logged, log_entry(t.start_time_us, t.finish_time_us,
                                          t.size))
    /\ in_flight' = NoRequest
    /\ device_log_lock' = "none"
    /\ t' = ThreadLocals0
    /\ t_pc' = "acquire"
    /\ UNCHANGED <<now, submit_queue, submit_queue_lock, cv_waiting,
                   cv_notified, m_pc, m, pushed, popped>>

(***************************************************************************)
(* The simulator server (src/standalone/flashsim.cpp) and its peer.        *)
(***************************************************************************)
\* One byte holds the values 0 .. 255.
ByteModulus == 2 ^ 8

\* Layout of struct req_header (packed): direction, addr, size,
\* start_time_us, widths in bytes.
DIRECTION_BYTES == Uint32Bytes
ADDR_BYTES == Uint64Bytes
SIZE_BYTES == Uint32Bytes
START_TIME_BYTES == Uint64Bytes
REQ_HEADER_LENGTH ==
    DIRECTION_BYTES + ADDR_BYTES + SIZE_BYTES + START_TIME_BYTES
\* write(csock, &time_used_us, 8): the width of unsigned long.
TIME_USED_BYTES == Uint64Bytes
\* sizeof(data), the width of a pointer.
POINTER_BYTES == Uint64Bytes

\* The values of an unsigned integer of the given width.
UintModulus(width) == ByteModulus ^ width
Uint32(x) == x % UintModulus(Uint32Bytes)

\* (int) x for a uint x: two's complement of the same width.
int_cast(x) ==
    IF x >= UintModulus(Uint32Bytes) \div 2
    THEN x - UintModulus(Uint32Bytes) ELSE x

\* The little-endian bytes of an unsigned value, as the packed struct and
\* the unsigned long are laid out in memory.
RECURSIVE le_encode(_, _)
le_encode(value, width) ==
    IF width = 0 THEN << >>
    ELSE <<value % ByteModulus>> \o le_encode(value \div ByteModulus, width - 1)

\* The unsigned value of little-endian bytes.
RECURSIVE le_decode(_)
le_decode(bytes) ==
    IF bytes = << >> THEN 0
    ELSE Head(bytes) + ByteModulus * le_decode(Tail(bytes))

req_header(direction, addr, size, start_time_us) ==
    [direction |-> direction, addr |-> addr, size |-> size,
     start_time_us |-> start_time_us]

\* The bytes a client writes with write(ssock, &header, REQ_HEADER_LENGTH).
header_bytes(header) ==
    le_encode(header.direction, DIRECTION_BYTES)
    \o le_encode(header.addr, ADDR_BYTES)
    \o le_encode(header.size, SIZE_BYTES)
    \o le_encode(header.start_time_us, START_TIME_BYTES)

\* struct req_header *header = (struct req_header *) buf;
header_cast(buf) ==
    LET addr_at == DIRECTION_BYTES
        size_at == addr_at + ADDR_BYTES
        start_at == size_at + SIZE_BYTES
    IN  req_header(le_decode(SubSeq(buf, 1, addr_at)),
                   le_decode(SubSeq(buf, addr_at + 1, size_at)),
                   le_decode(SubSeq(buf, size_at + 1, start_at)),
                   le_decode(SubSeq(buf, start_at + 1, REQ_HEADER_LENGTH)))

\* remainder = header->size % PAGE_SIZE;
\* size = remainder == 0 ? header->size
\*                       : header->size + PAGE_SIZE - remainder;   (uint)
rounded_size(header_size) ==
    LET remainder == header_size % PAGE_SIZE
    IN  IF remainder = 0 THEN header_size
        ELSE Uint32(header_size + PAGE_SIZE - remainder)

\* The double time_used_ms is held in units of 1 / TimeScale milliseconds.
TimeScale == 1000 * 1000
\* time_used_us = (unsigned long) (time_used_ms * 1000), for a positive
\* time_used_ms: the conversion truncates toward zero.
to_time_used_us(time_used_ms) == (time_used_ms * 1000) \div TimeScale

\* The first n elements of a sequence, all of it when it is shorter.
Take(seq, n) == SubSeq(seq, 1, IF n < Len(seq) THEN n ELSE Len(seq))
\* What is left after them.
Drop(seq, n) == SubSeq(seq, (IF n < Len(seq) THEN n ELSE Len(seq)) + 1, Len(seq))

(***************************************************************************)
(* The device collaborator (ssd.h, not part of src/): a page store.        *)
(* event_arrive takes the first page, the page count and, for a WRITE with *)
(* payload exchange, the buffer; get_result_buffer() gives the pages of    *)
(* the last READ.  Its service time is not computed here: every call       *)
(* returns one of DeviceTimes.                                             *)
(***************************************************************************)
ZeroPage == [i \in 1 .. PAGE_SIZE |-> 0]

\* The pages lpn .. lpn + npages - 1 take the content of buf.
ssd_write(pages, lpn, npages, buf) ==
    [p \in DOMAIN pages \cup (lpn .. lpn + npages - 1) |->
        IF p \in lpn .. lpn + npages - 1
        THEN SubSeq(buf, (p - lpn) * PAGE_SIZE + 1, (p - lpn + 1) * PAGE_SIZE)
        ELSE pages[p]]

\* The content of the pages lpn .. lpn + npages - 1, never written pages
\* reading as zeroes.
RECURSIVE ssd_read(_, _, _)
ssd_read(pages, lpn, npages) ==
    IF npages <= 0 THEN << >>
    ELSE (IF lpn \in DOMAIN pages THEN pages[lpn] ELSE ZeroPage)
         \o ssd_read(pages, lpn + 1, npages - 1)

\* Service times (time_used_ms) a call of event_arrive may return: -1 ms
\* and 0 (no service), and the positive times from half a microsecond to
\* MaxDeviceTimeUs microseconds in steps of one microsecond.
DeviceTimes ==
    {0 - TimeScale, 0}
    \cup {((2 * us - 1) * TimeScale) \div 2000 : us \in 1 .. MaxDeviceTimeUs}

\* A byte of malloc()ed memory that was never written.
UninitBytes == {0, ByteModulus - 1}

(***************************************************************************)
(* The peer: a client that issues requests as client.cpp does, with any    *)
(* header of HeaderMenu, and that may stop or leave at any point.          *)
(***************************************************************************)
Directions == {DIR_READ, DIR_WRITE}
Addrs == {0, 1, PAGE_SIZE}
Sizes == {0, 1, PAGE_SIZE}
\* The headers a client sends: those of the two directions, and one valid
\* header whose direction field is neither of them.
HeaderMenu(start_time_us) ==
    {req_header(direction, addr, size, start_time_us) :
        direction \in Directions, addr \in Addrs, size \in Sizes}
    \cup {req_header(DIR_WRITE + 1, 0, PAGE_SIZE, start_time_us)}

\* The payload of the client's r-th request: size bytes that differ from
\* request to request and from position to position.
payload_bytes(r, size) == [i \in 1 .. size |-> (16 * r + i) % ByteModulus]

ServerLocals0 ==
    [header |-> req_header(0, 0, 0, 0), rbytes |-> 0, size |-> 0,
     data |-> << >>, resp_data |-> << >>, time_used_ms |-> 0]

ClientLocals0 ==
    [header |-> req_header(0, 0, 0, 0), data |-> << >>, sent |-> << >>]

\* History record of one request a client has sent the header of: the
\* payload it sent, the payload and the time it received.
hist_record(header) ==
    [header |-> header, sent |-> << >>, data |-> << >>, time_used_us |-> 0,
     done |-> FALSE]

\* History record of one request header the server received.
req_record(header) ==
    [header |-> header, payload_read |-> 0, invoked |-> 0, writes |-> << >>,
     done |-> FALSE]

\* The state after prepare_socket() and sigaction(): the server listens,
\* no client has connected yet.
ServerStart ==
    /\ ssd_handle = << >>
    /\ s_pc = "accept"
    /\ s = ServerLocals0
    /\ csock = "none"
    /\ sys = [err |-> "", exit_status |-> -1]
    /\ ssock = "listening"
    /\ sock_file = TRUE
    /\ c2s = << >>
    /\ s2c = << >>
    /\ c_pc = "idle"
    /\ c = ClientLocals0
    /\ nreq = 0
    /\ nconn = 0
    /\ reqs = << >>
    /\ c_hist = << >>

\* The client's end of the connection is closed.
peer_closed == c_pc \in {"idle", "left"}
\* The server's end is closed, or the server process is gone.
server_closed == csock = "none"

\* The history record of the request in progress, updated.
reqs_payload_read(n) ==
    [reqs EXCEPT ![Len(reqs)].payload_read = n]
reqs_invoked ==
    [reqs EXCEPT ![Len(reqs)].invoked = @ + 1]
reqs_written(kind, bytes) ==
    [reqs EXCEPT ![Len(reqs)].writes =
        Append(@, [kind |-> kind, bytes |-> bytes])]

\* clean_up(signal): close(ssock), unlink(sock_name), delete ssd_handle,
\* exit(1); the connection goes with the process.
clean_up(signal) ==
    /\ ssock' = "closed"
    /\ sock_file' = FALSE
    /\ ssd_handle' = << >>
    /\ csock' = "none"
    /\ s_pc' = "exited"

\* error(msg): the message is printed and clean_up(SIGINT) is called.
error(msg) ==
    /\ sys' = [err |-> msg, exit_status |-> 1]
    /\ clean_up("SIGINT")

\* A write() on a connection whose peer has closed raises SIGPIPE, which
\* the server does not handle: the process is terminated by the signal,
\* its descriptors are closed by the system and the socket file stays.
sigpipe ==
    /\ s_pc' = "killed"
    /\ csock' = "none"
    /\ ssock' = "closed"
    /\ ssd_handle' = << >>
    /\ UNCHANGED <<sys, sock_file>>

(***************************************************************************)
(* main: the accept loop (flashsim.cpp 314-326).                           *)
(***************************************************************************)
\* csock = accept(ssock, NULL, NULL); request_loop(csock) is entered.
Accept ==
    /\ s_pc = "accept"
    /\ csock = "pending"
    /\ csock' = "open"
    /\ s_pc' = "read_header"
    /\ s' = ServerLocals0
    /\ reqs' = << >>
    /\ UNCHANGED <<PAGE_ENABLE_DATA, ssd_handle, sys, c2s, s2c, c_pc, c, nreq,
                   nconn, c_hist, ssock, sock_file>>
    /\ UNCHANGED <<bench_vars, call_vars>>

\* Mutant of CloseConnection: the device is created anew for the next
\* connection.
CloseConnection_new_device ==
    /\ s_pc = "conn_ended"
    /\ csock' = "none"
    /\ s_pc' = "accept"
    /\ c2s' = << >>
    /\ s2c' = << >>
    /\ ssd_handle' = << >>
    /\ UNCHANGED <<PAGE_ENABLE_DATA, s, sys, c_pc, c, nreq, nconn,
                   reqs, c_hist, ssock, sock_file>>
    /\ UNCHANGED <<bench_vars, call_vars>>

\* request_loop has returned: close(csock), back to accept().
CloseConnection ==
    /\ s_pc = "conn_ended"
    /\ csock' = "none"
    /\ s_pc' = "accept"
    /\ c2s' = << >>
    /\ s2c' = << >>
    /\ UNCHANGED <<PAGE_ENABLE_DATA, ssd_handle, s, sys, c_pc, c, nreq, nconn,
                   reqs, c_hist, ssock, sock_file>>
    /\ UNCHANGED <<bench_vars, call_vars>>

\* SIGINT is delivered while the server runs: the handler registered by
\* sigaction() is clean_up, whatever main or request_loop was doing.
Interrupt ==
    /\ s_pc \notin {"exited", "killed"}
    /\ sys' = [sys EXCEPT !.exit_status = 1]
    /\ clean_up("SIGINT")
    /\ s' = ServerLocals0
    /\ UNCHANGED <<PAGE_ENABLE_DATA, c2s, s2c, c_pc, c, nreq, nconn, reqs,
                   c_hist>>
    /\ UNCHANGED <<bench_vars, call_vars>>

(***************************************************************************)
(* request_loop (flashsim.cpp 174-270).                                    *)
(***************************************************************************)
\* Mutant of header_read_outcome: every short read ends the loop.
header_read_outcome_lenient(rbytes) ==
    IF rbytes # REQ_HEADER_LENGTH THEN "break" ELSE "header"

\* The result of the header read: 0 bytes end the loop, any other count
\* than REQ_HEADER_LENGTH is an error.
header_read_outcome(rbytes) ==
    IF rbytes = 0 THEN "break"
    ELSE IF rbytes # REQ_HEADER_LENGTH THEN "error"
    ELSE "header"

\* Mutant of invalid_size: no check of the size.
no_size_check(header) == FALSE

\* if (header->size <= 0)
invalid_size(header) == header.size <= 0

\* Mutant of unaligned_addr: no check of the alignment.
no_alignment_check(header) == FALSE

\* if ((header->addr % PAGE_SIZE) != 0)
unaligned_addr(header) == (header.addr % PAGE_SIZE) # 0

\* Mutant of after_header: only direction DIR_WRITE is served as a WRITE,
\* every other value as a READ.
after_header_write_checked(header) ==
    IF header.direction # DIR_WRITE THEN "process_read"
    ELSE IF PAGE_ENABLE_DATA THEN "read_data"
    ELSE "process_write"

\* What follows a valid header: the device call of a READ, the payload
\* read of a WRITE, or its device call when no payload is exchanged.
after_header(header) ==
    IF header.direction = DIR_READ THEN "process_read"
    ELSE IF PAGE_ENABLE_DATA THEN "read_data"
    ELSE "process_write"

\* rbytes = read(csock, buf, REQ_HEADER_LENGTH) returns what has arrived,
\* at most a header, or 0 when the peer has closed; then the checks of the
\* header and the rounding of its size.
ReadHeader ==
    /\ s_pc = "read_header"
    /\ Len(c2s) > 0 \/ peer_closed
    /\ LET buf == Take(c2s, REQ_HEADER_LENGTH)
           rbytes == Len(buf)
           header == header_cast(buf)
       IN  /\ c2s' = Drop(c2s, REQ_HEADER_LENGTH)
           /\ IF header_read_outcome(rbytes) = "break"
              THEN /\ s_pc' = "conn_ended"
                   /\ s' = [ServerLocals0 EXCEPT !.rbytes = rbytes]
                   /\ UNCHANGED <<csock, sys, ssd_handle, reqs, ssock, sock_file>>
              ELSE IF header_read_outcome(rbytes) = "error"
              THEN /\ error("request header wrong length")
                   /\ s' = [ServerLocals0 EXCEPT !.rbytes = rbytes]
                   /\ UNCHANGED reqs
              ELSE /\ reqs' = Append(reqs, req_record(header))
                   /\ IF invalid_size(header)
                      THEN /\ error("request header invalid size")
                           /\ s' = [ServerLocals0 EXCEPT !.rbytes = rbytes,
                                                         !.header = header]
                      ELSE IF unaligned_addr(header)
                      THEN /\ error("request unaligned logical address")
                           /\ s' = [ServerLocals0 EXCEPT !.rbytes = rbytes,
                                                         !.header = header]
                      ELSE /\ s_pc' = after_header(header)
                           /\ s' = [ServerLocals0 EXCEPT
                                       !.rbytes = rbytes,
                                       !.header = header,
                                       !.size = rounded_size(header.size)]
                           /\ UNCHANGED <<csock, sys, ssd_handle, ssock, sock_file>>
    /\ UNCHANGED <<PAGE_ENABLE_DATA, s2c, c_pc, c, nreq, nconn,
                   c_hist>>
    /\ UNCHANGED <<bench_vars, call_vars>>

\* read() fails and returns -1.
ReadHeaderFail ==
    /\ s_pc = "read_header"
    /\ csock = "open"
    /\ s' = [ServerLocals0 EXCEPT !.rbytes = -1]
    /\ error("request header wrong length")
    /\ UNCHANGED <<PAGE_ENABLE_DATA, c2s, s2c, c_pc, c, nreq,
                   nconn, reqs, c_hist>>
    /\ UNCHANGED <<bench_vars, call_vars>>

\* The buffer handed to the device: data = malloc(size) holds whatever the
\* heap held; bzero(data, sizeof(data)) clears its first sizeof(void *)
\* bytes; read() then stores the payload at its start.
data_buffers(size, payload) ==
    LET written == IF Len(payload) > POINTER_BYTES
                   THEN Len(payload) ELSE POINTER_BYTES
        length == IF size > Len(payload) THEN size ELSE Len(payload)
    IN  {[i \in 1 .. length |->
            IF i <= Len(payload) THEN payload[i]
            ELSE IF i <= POINTER_BYTES THEN 0
            ELSE heap[i]] :
         heap \in [(written + 1) .. length -> UninitBytes]}

\* WRITE with payload exchange: rbytes = read(csock, data, header->size).
ReadData ==
    /\ s_pc = "read_data"
    /\ Len(c2s) > 0 \/ peer_closed
    /\ LET payload == Take(c2s, s.header.size)
           rbytes == Len(payload)
       IN  /\ c2s' = Drop(c2s, s.header.size)
           /\ reqs' = reqs_payload_read(rbytes)
           /\ IF rbytes # int_cast(s.header.size)
              THEN /\ error("client data to write wrong length")
                   /\ s' = [s EXCEPT !.rbytes = rbytes]
              ELSE /\ s_pc' = "process_write"
                   /\ \E data \in data_buffers(s.size, payload) :
                         s' = [s EXCEPT !.rbytes = rbytes, !.data = data]
                   /\ UNCHANGED <<csock, sys, ssd_handle, ssock, sock_file>>
    /\ UNCHANGED <<PAGE_ENABLE_DATA, s2c, c_pc, c, nreq, nconn,
                   c_hist>>
    /\ UNCHANGED <<bench_vars, call_vars>>

\* time_used_ms = process_write(header->addr, size, data, start_time_ms):
\* event_arrive(WRITE, addr / PAGE_SIZE, size / PAGE_SIZE, start, buf) with
\* buf = data, or NULL when no payload is exchanged; then free(data).
ProcessWrite ==
    /\ s_pc = "process_write"
    /\ \E time_used_ms \in DeviceTimes :
          s' = [s EXCEPT !.time_used_ms = time_used_ms, !.data = << >>]
    /\ ssd_handle' =
          IF PAGE_ENABLE_DATA
          THEN ssd_write(ssd_handle, s.header.addr \div PAGE_SIZE,
                         s.size \div PAGE_SIZE, s.data)
          ELSE ssd_handle
    /\ reqs' = reqs_invoked
    /\ s_pc' = "respond_time"
    /\ UNCHANGED <<PAGE_ENABLE_DATA, csock, sys, c2s, s2c, c_pc, c, nreq,
                   nconn, c_hist, ssock, sock_file>>
    /\ UNCHANGED <<bench_vars, call_vars>>

\* Mutant of read_resp_data: the page-rounded size is copied.
read_resp_data_rounded(pages, header, size) ==
    ssd_read(pages, header.addr \div PAGE_SIZE, size \div PAGE_SIZE)

\* memcpy(resp_data, ssd_handle->get_result_buffer(), header->size)
read_resp_data(pages, header, size) ==
    Take(ssd_read(pages, header.addr \div PAGE_SIZE, size \div PAGE_SIZE),
         header.size)

\* Mutant of after_process_read: no response, the next header is read.
after_process_read_no_response == "read_header"

\* After process_read: if (PAGE_ENABLE_DATA) the payload is sent first.
after_process_read ==
    IF PAGE_ENABLE_DATA THEN "respond_data" ELSE "respond_time"

\* time_used_ms = process_read(header->addr, size, start_time_ms):
\* event_arrive(READ, addr / PAGE_SIZE, size / PAGE_SIZE, start, NULL);
\* with payload exchange, resp_data = malloc(header->size) takes the first
\* header->size bytes of get_result_buffer().
ProcessRead ==
    /\ s_pc = "process_read"
    /\ \E time_used_ms \in DeviceTimes :
          s' = [s EXCEPT
                  !.time_used_ms = time_used_ms,
                  !.resp_data =
                      IF PAGE_ENABLE_DATA
                      THEN read_resp_data(ssd_handle, s.header, s.size)
                      ELSE << >>]
    /\ reqs' = reqs_invoked
    /\ s_pc' = after_process_read
    /\ UNCHANGED <<PAGE_ENABLE_DATA, ssd_handle, csock, sys, c2s, s2c, c_pc,
                   c, nreq, nconn, c_hist, ssock, sock_file>>
    /\ UNCHANGED <<bench_vars, call_vars>>

\* wbytes = write(csock, resp_data, header->size); free(resp_data).
RespondData ==
    /\ s_pc = "respond_data"
    /\ IF peer_closed
       THEN /\ sigpipe
            /\ UNCHANGED <<s, s2c, reqs>>
       ELSE /\ s2c' = s2c \o s.resp_data
            /\ reqs' = reqs_written("data", s.resp_data)
            /\ s' = [s EXCEPT !.resp_data = << >>]
            /\ IF Len(s.resp_data) # int_cast(s.header.size)
               THEN error("respond data to read failed")
               ELSE /\ s_pc' = "respond_time"
                    /\ UNCHANGED <<csock, sys, ssd_handle, ssock, sock_file>>
    /\ UNCHANGED <<PAGE_ENABLE_DATA, c2s, c_pc, c, nreq, nconn,
                   c_hist>>
    /\ UNCHANGED <<bench_vars, call_vars>>

\* if (time_used_ms <= 0) error(...); time_used_us = (unsigned long)
\* (time_used_ms * 1000); wbytes = write(csock, &time_used_us, 8); the
\* next iteration of the loop follows.
RespondTime ==
    /\ s_pc = "respond_time"
    /\ IF s.time_used_ms <= 0
       THEN /\ error("negative processing time")
            /\ UNCHANGED <<s, s2c, reqs>>
       ELSE IF peer_closed
       THEN /\ sigpipe
            /\ UNCHANGED <<s, s2c, reqs>>
       ELSE LET time_used_us == to_time_used_us(s.time_used_ms)
                bytes == le_encode(time_used_us, TIME_USED_BYTES)
            IN  /\ s2c' = s2c \o bytes
                /\ reqs' = [reqs_written("time", bytes) EXCEPT
                               ![Len(reqs)].done = TRUE]
                /\ s' = ServerLocals0
                /\ s_pc' = "read_header"
                /\ UNCHANGED <<csock, sys, ssd_handle, ssock, sock_file>>
    /\ UNCHANGED <<PAGE_ENABLE_DATA, c2s, c_pc, c, nreq, nconn,
                   c_hist>>
    /\ UNCHANGED <<bench_vars, call_vars>>

(***************************************************************************)
(* The client (client.cpp 95-174).                                         *)
(***************************************************************************)
\* prepare_socket(): connect() succeeds while the server listens; the
\* model lets a client connect when the server is back in accept().
ClientConnect ==
    /\ c_pc \in {"idle", "left"}
    /\ csock = "none"
    /\ s_pc = "accept"
    /\ nconn < MaxConnections
    /\ nconn' = nconn + 1
    /\ csock' = "pending"
    /\ c_pc' = "ready"
    /\ c' = ClientLocals0
    /\ c2s' = << >>
    /\ s2c' = << >>
    /\ UNCHANGED <<PAGE_ENABLE_DATA, ssd_handle, s_pc, s, sys, nreq, reqs,
                   c_hist, ssock, sock_file>>
    /\ UNCHANGED <<bench_vars, call_vars>>

\* The client process ends, or closes the connection: after its last
\* request, or at any other point when it is killed.
ClientLeave ==
    /\ c_pc \in {"ready", "send_data", "recv_data", "recv_time"}
    /\ c_pc' = "left"
    /\ c' = ClientLocals0
    /\ UNCHANGED <<PAGE_ENABLE_DATA, ssd_handle, s_pc, s, csock, sys, c2s,
                   s2c, nreq, nconn, reqs, c_hist, ssock, sock_file>>
    /\ UNCHANGED <<bench_vars, call_vars>>

\* wbytes = write(ssock, &header, REQ_HEADER_LENGTH).  A write on a
\* connection the server has closed ends the client.
ClientSendHeader ==
    /\ c_pc = "ready"
    /\ nreq < MaxRequests
    /\ nreq' = nreq + 1
    /\ \E header \in HeaderMenu(nreq + 1) :
          IF server_closed
          THEN /\ c_pc' = "left"
               /\ UNCHANGED <<c, c2s, c_hist>>
          ELSE /\ c2s' = c2s \o header_bytes(header)
               /\ c' = [c EXCEPT !.header = header]
               /\ c_hist' = Append(c_hist, hist_record(header))
               /\ c_pc' = IF header.direction = DIR_READ
                          THEN "recv_data" ELSE "send_data"
    /\ UNCHANGED <<PAGE_ENABLE_DATA, ssd_handle, s_pc, s, csock, sys, s2c,
                   nconn, reqs, ssock, sock_file>>
    /\ UNCHANGED <<bench_vars, call_vars>>

\* The write of the header is cut short (wbytes != REQ_HEADER_LENGTH):
\* only its first k bytes are sent and the client exits with an error.
ClientSendFragment ==
    /\ c_pc = "ready"
    /\ nreq < MaxRequests
    /\ ~server_closed
    /\ nreq' = nreq + 1
    /\ \E header \in HeaderMenu(nreq + 1) :
       \E k \in 1 .. REQ_HEADER_LENGTH - 1 :
          c2s' = c2s \o Take(header_bytes(header), k)
    /\ c_pc' = "left"
    /\ c' = ClientLocals0
    /\ UNCHANGED <<PAGE_ENABLE_DATA, ssd_handle, s_pc, s, csock, sys, s2c,
                   nconn, reqs, c_hist, ssock, sock_file>>
    /\ UNCHANGED <<bench_vars, call_vars>>

\* wbytes = write(ssock, data, header.size): the payload of a WRITE, or,
\* when the write is cut short, its first k bytes and the client's exit.
ClientSendData ==
    /\ c_pc = "send_data"
    /\ LET data == payload_bytes(nreq, c.header.size)
       IN  IF server_closed
           THEN /\ c_pc' = "left"
                /\ c' = ClientLocals0
                /\ UNCHANGED <<c2s, c_hist>>
           ELSE \/ /\ c2s' = c2s \o data
                   /\ c' = [c EXCEPT !.sent = data]
                   /\ c_hist' = [c_hist EXCEPT ![Len(c_hist)].sent = data]
                   /\ c_pc' = "recv_time"
                \/ /\ \E k \in 1 .. Len(data) - 1 :
                         c2s' = c2s \o Take(data, k)
                   /\ UNCHANGED c_hist
                   /\ c' = ClientLocals0
                   /\ c_pc' = "left"
    /\ UNCHANGED <<PAGE_ENABLE_DATA, ssd_handle, s_pc, s, csock, sys, s2c,
                   nreq, nconn, reqs, ssock, sock_file>>
    /\ UNCHANGED <<bench_vars, call_vars>>

\* rbytes = read(ssock, data, header.size): what has arrived, at most
\* header.size bytes, or 0 when the server is gone.
ClientRecvData ==
    /\ c_pc = "recv_data"
    /\ Len(s2c) > 0 \/ server_closed \/ c.header.size = 0
    /\ LET data == Take(s2c, c.header.size)
       IN  /\ s2c' = Drop(s2c, c.header.size)
           /\ IF Len(data) # int_cast(c.header.size)
              THEN /\ c_pc' = "left"
                   /\ c' = ClientLocals0
              ELSE /\ c_pc' = "recv_time"
                   /\ c' = [c EXCEPT !.data = data]
    /\ UNCHANGED <<PAGE_ENABLE_DATA, ssd_handle, s_pc, s, csock, sys, c2s,
                   nreq, nconn, reqs, c_hist, ssock, sock_file>>
    /\ UNCHANGED <<bench_vars, call_vars>>

\* rbytes = read(ssock, &time_used_us, 8); the request is complete.
ClientRecvTime ==
    /\ c_pc = "recv_time"
    /\ Len(s2c) > 0 \/ server_closed
    /\ LET bytes == Take(s2c, TIME_USED_BYTES)
       IN  /\ s2c' = Drop(s2c, TIME_USED_BYTES)
           /\ IF Len(bytes) # TIME_USED_BYTES
              THEN /\ c_pc' = "left"
                   /\ UNCHANGED c_hist
              ELSE /\ c_pc' = "ready"
                   /\ c_hist' = [c_hist EXCEPT
                                   ![Len(c_hist)].data = c.data,
                                   ![Len(c_hist)].time_used_us =
                                       le_decode(bytes),
                                   ![Len(c_hist)].done = TRUE]
           /\ c' = ClientLocals0
    /\ UNCHANGED <<PAGE_ENABLE_DATA, ssd_handle, s_pc, s, csock, sys, c2s,
                   nreq, nconn, reqs, ssock, sock_file>>
    /\ UNCHANGED <<bench_vars, call_vars>>

(***************************************************************************)
(* Functions applied on their own: log_query_throughput (lt-bench.cpp      *)
(* 163-179) on any log and window, and the page rounding of request_loop   *)
(* (flashsim.cpp 207-209, with the page count of 102-103 and 129-130) on   *)
(* any header size that passes the size check.                             *)
(***************************************************************************)
\* The latest time of the logs and windows the query is applied to.
MaxQueryTime == 3

\* intensity, num_reqs and addr are the locals of a running bench_seq_read
\* of la-bench.cpp or tp-bench.cpp.  socket_ret, bind_ret and listen_ret are
\* what the three calls of prepare_socket() return; path tells whether the
\* path argv[1] names exists when the server starts.
NoArgs ==
    [fn |-> "", log |-> << >>, begin_time_us |-> 0, end_time_us |-> 0,
     header_size |-> 0, intensity |-> 0, num_reqs |-> 0, addr |-> 0,
     size |-> 0, socket_ret |-> 0, bind_ret |-> 0, listen_ret |-> 0,
     path |-> "absent"]

\* issued: the addresses of the requests issued so far, in their order;
\* sent: the bytes written to the socket; exited: error() was called.
\* opened: the descriptors the process opened; closed: those it closed;
\* removed: what unlink() removed ("none", or the path as it was: "foreign"
\* when another process had created it, "own" when bind() had).
NoReturn ==
    [num |-> 0, den |-> 0, size |-> 0, npages |-> 0, issued |-> << >>,
     sent |-> << >>, exited |-> FALSE, opened |-> {}, closed |-> {},
     removed |-> "none"]

\* No function is applied on its own: the state of a whole program.
CallsIdle ==
    /\ call_pc = "idle"
    /\ call_args = NoArgs
    /\ call_ret = NoReturn

\* The logs the submission thread can build: at most DEVICE_LOG_LENGTH
\* entries, in the order of their finish times (one thread appends them,
\* each with the time of its append).
QueryLogs ==
    {log \in UNION {[1 .. n -> {log_entry(0, finish_time_us, bytes) :
                                    finish_time_us \in 0 .. MaxQueryTime,
                                    bytes \in {1, PAGE_SIZE}}] :
                       n \in 0 .. DEVICE_LOG_LENGTH} :
        \A i \in 1 .. Len(log) - 1 :
            log[i].finish_time_us <= log[i + 1].finish_time_us}

QueryArgs ==
    {[NoArgs EXCEPT !.fn = "log_query_throughput", !.log = log,
                    !.begin_time_us = begin_time_us,
                    !.end_time_us = end_time_us] :
        log \in QueryLogs, begin_time_us \in 0 .. MaxQueryTime,
        end_time_us \in 0 .. MaxQueryTime}

\* The header sizes that pass if (header->size <= 0): every value of the
\* unsigned field but 0.
RoundingArgs ==
    {[NoArgs EXCEPT !.fn = "rounding", !.header_size = header_size] :
        header_size \in 1 .. UintModulus(SIZE_BYTES) - 1}

\* size / PAGE_SIZE, the page count process_read and process_write pass
\* to event_arrive.
event_pages(size) == size \div PAGE_SIZE

\* Requests per intensity level of the synchronous benchmarks (20000 in
\* la-bench.cpp, 500 in tp-bench.cpp).
SyncReqs == 3
\* Intensity levels of the synchronous benchmarks.
SyncLevels == 3
\* Pages of the device of tp-bench.cpp (FLASH_CAPACITY / PAGE_SIZE).
TpFlashPages == 5

\* la-bench.cpp: REQS_PER_ROUND; tp-bench.cpp runs 499 requests and a last
\* one per level.
REQS_PER_ROUND == SyncReqs
\* tp-bench.cpp: the whole device.  la-bench.cpp wraps at its FLASH_SPACE,
\* which has the pages of the one of lt-bench.cpp here.
FLASH_CAPACITY == TpFlashPages * PAGE_SIZE

\* bench_seq_read of la-bench.cpp and of tp-bench.cpp at their entry:
\* addr = 0, the first intensity (INTENSITY_TICK, 100), num_reqs = 0.
SeqArgs ==
    {[NoArgs EXCEPT !.fn = "la_bench_seq_read", !.intensity = INTENSITY_TICK],
     [NoArgs EXCEPT !.fn = "tp_bench_seq_read", !.intensity = 100]}

\* The request-issuing functions of the three clients, on any address up
\* to two pages and sizes around 0, one page and the largest unsigned int.
SubmitFunctions == {"_submit_write", "_submit_read", "issue_write", "issue_read"}

SubmitArgs ==
    {[NoArgs EXCEPT !.fn = fn, !.addr = addr, !.size = size] :
        fn \in SubmitFunctions, addr \in 0 .. 2 * PAGE_SIZE,
        size \in {0, 1, PAGE_SIZE, PAGE_SIZE + 1,
                  UintModulus(SIZE_BYTES) - 1}}

\* The descriptor a successful socket() returns in a process that holds
\* the three standard ones.
SOCKET_FD == 3

\* The runs of the server's start-up: each of socket(), bind() and listen()
\* succeeds or fails, and the path of the socket file exists beforehand or
\* not.  bind() on a path that exists fails (EADDRINUSE).
StartupArgs ==
    {args \in {[NoArgs EXCEPT !.fn = "main", !.socket_ret = socket_ret,
                              !.bind_ret = bind_ret,
                              !.listen_ret = listen_ret, !.path = path] :
                  socket_ret \in {-1, SOCKET_FD}, bind_ret \in {-1, 0},
                  listen_ret \in {-1, 0}, path \in {"absent", "foreign"}} :
        args.bind_ret = 0 => args.path = "absent"}

CallsStart ==
    /\ call_pc = "call"
    /\ call_args \in QueryArgs \cup RoundingArgs \cup SeqArgs \cup SubmitArgs
                     \cup StartupArgs
    /\ call_ret = NoReturn

CallLogQuery ==
    /\ call_pc = "call"
    /\ call_args.fn = "log_query_throughput"
    /\ LET result == log_query_throughput(call_args.log,
                                          call_args.begin_time_us,
                                          call_args.end_time_us)
       IN  call_ret' = [NoReturn EXCEPT !.num = result.num,
                                        !.den = result.den]
    /\ call_pc' = "returned"
    /\ UNCHANGED <<call_args, bench_vars, server_vars>>

CallRounding ==
    /\ call_pc = "call"
    /\ call_args.fn = "rounding"
    /\ call_ret' =
          [NoReturn EXCEPT
              !.size = rounded_size(call_args.header_size),
              !.npages = event_pages(rounded_size(call_args.header_size))]
    /\ call_pc' = "returned"
    /\ UNCHANGED <<call_args, bench_vars, server_vars>>

\* The globals of flashsim.cpp when main() is entered: statics, hence
\* zero-initialised.  ssock = 0 names the standard input.
ServerGlobals0 == [ssock |-> 0, sock_name |-> "", ssd_handle |-> "NULL"]

\* sizeof(struct req_header): the packed bit-fields of the header.
sizeof_req_header ==
    DIRECTION_BYTES + ADDR_BYTES + SIZE_BYTES + START_TIME_BYTES

\* clean_up(signal) on any value of the globals: what it closes, what it
\* removes, and the exit.  path is the state of the path sock_name names;
\* unlink() of a path that does not exist removes nothing.
startup_clean_up(globals, path, opened) ==
    [NoReturn EXCEPT
        !.exited = TRUE,
        !.opened = opened,
        !.closed = IF globals.ssock >= 0 THEN {globals.ssock} ELSE {},
        !.removed = IF globals.sock_name # "" /\ path # "absent"
                    THEN path ELSE "none"]

\* prepare_socket(): ssock = socket(), then bind() and listen(), each
\* failure going to error() and so to clean_up().  A successful bind()
\* creates the path.
prepare_socket(globals, args) ==
    LET created == [globals EXCEPT !.ssock = args.socket_ret]
        opened == {SOCKET_FD}
    IN  IF created.ssock < 0
        THEN startup_clean_up(created, args.path, {})
        ELSE IF args.bind_ret # 0
        THEN startup_clean_up(created, args.path, opened)
        ELSE IF args.listen_ret # 0
        THEN startup_clean_up(created, "own", opened)
        ELSE [NoReturn EXCEPT !.opened = opened]

\* main() up to the return of prepare_socket(): sock_name = argv[1], the
\* check of the header size, ssd_handle = new Ssd(), prepare_socket().
main_startup(args) ==
    LET named == [ServerGlobals0 EXCEPT !.sock_name = "argv[1]"]
    IN  IF sizeof_req_header # REQ_HEADER_LENGTH
        THEN startup_clean_up(named, args.path, {})
        ELSE prepare_socket([named EXCEPT !.ssd_handle = "Ssd"], args)

CallStartup ==
    /\ call_pc = "call"
    /\ call_args.fn = "main"
    /\ call_ret' = main_startup(call_args)
    /\ call_pc' = "returned"
    /\ UNCHANGED <<call_args, bench_vars, server_vars>>

\* _submit_write / _submit_read (lt-bench.cpp 203-224, 241-262) and
\* issue_write / issue_read (la-bench.cpp 100-122, 143-165; tp-bench.cpp
\* 93-115, 136-158) up to the write() of the header: the guard calls
\* error(), which exits; otherwise the header is filled and written.
CallSubmit ==
    /\ call_pc = "call"
    /\ call_args.fn \in SubmitFunctions
    /\ IF submit_args_valid(call_args.addr, call_args.size)
       THEN call_ret' =
               [call_ret EXCEPT
                   !.sent = header_bytes(req_header(
                                IF call_args.fn \in {"_submit_write", "issue_write"}
                                THEN DIR_WRITE ELSE DIR_READ,
                                call_args.addr, call_args.size, 0))]
       ELSE call_ret' = [call_ret EXCEPT !.exited = TRUE]
    /\ call_pc' = "returned"
    /\ UNCHANGED <<call_args, bench_vars, server_vars>>

\* la-bench.cpp 206-212: issue_read(addr, PAGE_SIZE, cur_time_ms) (its
\* guard ends the process), then addr = (addr + PAGE_SIZE) % FLASH_SPACE.
LaSeqIssue ==
    /\ call_pc = "call"
    /\ call_args.fn = "la_bench_seq_read"
    /\ call_args.num_reqs < REQS_PER_ROUND
    /\ IF submit_args_valid(call_args.addr, PAGE_SIZE)
       THEN /\ call_ret' = [call_ret EXCEPT
                               !.issued = Append(@, call_args.addr)]
            /\ call_args' =
                  [call_args EXCEPT
                      !.addr = (call_args.addr + PAGE_SIZE) % FLASH_SPACE,
                      !.num_reqs = @ + 1]
            /\ call_pc' = "call"
       ELSE /\ call_pc' = "returned"
            /\ UNCHANGED <<call_args, call_ret>>
    /\ UNCHANGED <<bench_vars, server_vars>>

\* la-bench.cpp 199-217: the inner loop ends; intensity += INTENSITY_TICK
\* while intensity <= MAX_INTENSITY, then the function returns.
LaSeqRoundEnd ==
    /\ call_pc = "call"
    /\ call_args.fn = "la_bench_seq_read"
    /\ ~(call_args.num_reqs < REQS_PER_ROUND)
    /\ IF call_args.intensity + INTENSITY_TICK <= SyncLevels * INTENSITY_TICK
       THEN /\ call_args' = [call_args EXCEPT !.intensity = @ + INTENSITY_TICK,
                                               !.num_reqs = 0]
            /\ call_pc' = "call"
       ELSE /\ call_pc' = "returned"
            /\ UNCHANGED call_args
    /\ UNCHANGED <<call_ret, bench_vars, server_vars>>

\* tp-bench.cpp 198-202: for (num_reqs = 0; num_reqs < 499; ++num_reqs)
\* issue_read(cur_addr, ...); cur_addr = (cur_addr + PAGE_SIZE) %
\* FLASH_CAPACITY.
TpSeqIssue ==
    /\ call_pc = "call"
    /\ call_args.fn = "tp_bench_seq_read"
    /\ call_args.num_reqs < REQS_PER_ROUND - 1
    /\ IF submit_args_valid(call_args.addr, PAGE_SIZE)
       THEN /\ call_ret' = [call_ret EXCEPT
                               !.issued = Append(@, call_args.addr)]
            /\ call_args' =
                  [call_args EXCEPT
                      !.addr = (call_args.addr + PAGE_SIZE) % FLASH_CAPACITY,
                      !.num_reqs = @ + 1]
            /\ call_pc' = "call"
       ELSE /\ call_pc' = "returned"
            /\ UNCHANGED <<call_args, call_ret>>
    /\ UNCHANGED <<bench_vars, server_vars>>

\* tp-bench.cpp 203-210, 192: last_time_used_ms = issue_read(cur_addr, ...),
\* the result of the level is stored, and intensity += 100 while
\* intensity < 12000; cur_addr is left as it is.
TpSeqLast ==
    /\ call_pc = "call"
    /\ call_args.fn = "tp_bench_seq_read"
    /\ ~(call_args.num_reqs < REQS_PER_ROUND - 1)
    /\ IF submit_args_valid(call_args.addr, PAGE_SIZE)
       THEN /\ call_ret' = [call_ret EXCEPT
                               !.issued = Append(@, call_args.addr)]
            /\ IF call_args.intensity + 100 < (SyncLevels + 1) * 100
               THEN /\ call_args' = [call_args EXCEPT !.intensity = @ + 100,
                                                       !.num_reqs = 0]
                    /\ call_pc' = "call"
               ELSE /\ call_pc' = "returned"
                    /\ UNCHANGED call_args
       ELSE /\ call_pc' = "returned"
            /\ UNCHANGED <<call_args, call_ret>>
    /\ UNCHANGED <<bench_vars, server_vars>>

(***************************************************************************)
(* The specifications.                                                     *)
(***************************************************************************)
InitBench ==
    /\ BenchStart
    /\ ServerStart
    /\ CallsIdle
    /\ PAGE_ENABLE_DATA = TRUE

InitServer ==
    /\ BenchStart
    /\ ServerStart
    /\ CallsIdle
    /\ PAGE_ENABLE_DATA \in BOOLEAN

InitCalls ==
    /\ BenchStart
    /\ ServerStart
    /\ CallsStart
    /\ PAGE_ENABLE_DATA = TRUE

NextCalls ==
    \/ CallLogQuery \/ CallRounding \/ CallSubmit \/ CallStartup
    \/ LaSeqIssue \/ LaSeqRoundEnd \/ TpSeqIssue \/ TpSeqLast

SpecCalls == InitCalls /\ [][NextCalls]_vars

NextServer ==
    \/ Accept \/ CloseConnection \/ Interrupt
    \/ ReadHeader \/ ReadHeaderFail \/ ReadData
    \/ ProcessWrite \/ ProcessRead \/ RespondData \/ RespondTime
    \/ ClientConnect \/ ClientLeave \/ ClientSendHeader \/ ClientSendFragment
    \/ ClientSendData \/ ClientRecvData \/ ClientRecvTime

SpecServer == InitServer /\ [][NextServer]_vars

NextBench ==
    \/ FillSubmit \/ FillRecv \/ FillWake \/ FillFail \/ FillDone
    \/ CleanUpLock \/ CleanUpClear
    \/ SpawnThread \/ BenchInit \/ RoundInit \/ Iterate
    \/ QueryLock \/ QueryScan \/ PushLock \/ PushBack \/ Wake
    \/ RoundEnd
    \/ ThreadLock \/ ThreadWait \/ ThreadNotified \/ ThreadSpuriousWake
    \/ ThreadExtract \/ ThreadSubmit \/ ThreadRecv \/ ThreadFail
    \/ ThreadLogArgs \/ ThreadLogLock \/ ThreadLogPush

SpecBench == InitBench /\ [][NextBench]_vars

\* Entries the driver pushes between two clears in the fair runs.
FairMaxPushes == 2

\* PushLock of a driver that pushes at most FairMaxPushes entries a round.
PushLockFair == PushLock /\ Len(pushed) < FairMaxPushes

\* The steps of the main thread that do not end the process on an error.
MainStep ==
    \/ FillSubmit \/ FillRecv \/ FillWake \/ FillDone
    \/ CleanUpLock \/ CleanUpClear
    \/ SpawnThread \/ BenchInit \/ RoundInit \/ Iterate
    \/ QueryLock \/ QueryScan \/ PushLockFair \/ PushBack \/ Wake
    \/ RoundEnd

\* The steps of the submission thread when the server answers every
\* request; a spurious wake-up is possible but never owed to the thread.
ThreadStep ==
    \/ ThreadLock \/ ThreadWait \/ ThreadNotified
    \/ ThreadExtract \/ ThreadSubmit \/ ThreadRecv
    \/ ThreadLogArgs \/ ThreadLogLock \/ ThreadLogPush

NextBenchFair ==
    \/ MainStep \/ FillFail
    \/ ThreadStep \/ ThreadSpuriousWake \/ ThreadFail

\* Fair scheduling: a thread whose next step is possible again and again
\* takes it (a notified thread wakes, a mutex that keeps becoming free is
\* acquired, a usleep() returns).
SpecBenchFair ==
    /\ InitBench
    /\ [][NextBenchFair]_vars
    /\ SF_vars(MainStep)
    /\ SF_vars(ThreadStep)

(***************************************************************************)
(* Claims about the benchmark client (checked under SpecBench).            *)
(***************************************************************************)
\* C1: the submission queue is FIFO.  Between two clears, the entries the
\* submission thread has dequeued, followed by those still queued, are the
\* entries the driver pushed, in push order and with all four fields
\* (direction, addr, size, start_time_us) unchanged: the i-th dequeued
\* entry is the i-th pushed one.
C1_QueueFifo == pushed = popped \o submit_queue

\* C1 witness: two entries were dequeued while a third was still queued.
C1_Witness == Len(popped) >= 2 /\ Len(submit_queue) >= 1

\* The last n entries of a sequence (all of it when it is shorter).
LastN(seq, n) ==
    IF Len(seq) <= n THEN seq ELSE SubSeq(seq, Len(seq) - n + 1, Len(seq))

\* C2: the device log never holds more than DEVICE_LOG_LENGTH entries in a
\* state outside log_push_entry, and it always holds the most recently
\* appended entries since the last clear, oldest first: all of them up to
\* the capacity, exactly the DEVICE_LOG_LENGTH latest beyond it.
C2_LogBound ==
    /\ Len(device_log) <= DEVICE_LOG_LENGTH
    /\ device_log = LastN(logged, DEVICE_LOG_LENGTH)

\* C2 witness: more entries than the capacity were appended since the
\* last clear, and the log is full.
C2_Witness ==
    /\ Len(logged) > DEVICE_LOG_LENGTH
    /\ Len(device_log) = DEVICE_LOG_LENGTH

\* The bytes of ALL entries of the log that finished in (begin, end].
RECURSIVE BytesInWindow(_, _, _, _)
BytesInWindow(log, i, begin_time_us, end_time_us) ==
    IF i = 0 THEN 0
    ELSE BytesInWindow(log, i - 1, begin_time_us, end_time_us)
         + (IF /\ begin_time_us < log[i].finish_time_us
               /\ log[i].finish_time_us <= end_time_us
            THEN log[i].bytes ELSE 0)

\* (sum / 1024) * 1000000 / (end - begin), as a fraction.
WindowThroughput(log, begin_time_us, end_time_us) ==
    [num |-> BytesInWindow(log, Len(log), begin_time_us, end_time_us)
             * US_PER_SEC,
     den |-> 1024 * (end_time_us - begin_time_us)]

\* The query agrees with the window sum on every window begin < end.
QueryCorrect(log) ==
    \A begin_time_us \in 0 .. MaxTime : \A end_time_us \in 0 .. MaxTime :
        begin_time_us < end_time_us =>
            log_query_throughput(log, begin_time_us, end_time_us)
            = WindowThroughput(log, begin_time_us, end_time_us)

\* C3: for every log the program reaches and every window begin < end,
\* log_query_throughput returns the bytes of all entries with
\* begin < finish_time_us <= end, / 1024 * 1000000 / (end - begin): the
\* early break of the backward scan skips no entry of the window.  The log
\* starts empty, so it is enough that every step that changes the log
\* leaves one on which the query is correct.
C3_QueryThroughput ==
    [][device_log' # device_log => QueryCorrect(device_log')]_vars

\* C3 witness: the driver has taken a sample that counted bytes, and the
\* log holds an entry that finished exactly at the end of some window
\* (counted), one that finished exactly at its begin (not counted, the scan
\* breaks there) and that window's throughput is that of the one entry.
C3_Witness ==
    /\ \E k \in 1 .. Len(m.throughputs) : m.throughputs[k].num > 0
    /\ Len(device_log) >= 2
    /\ \E i \in 1 .. Len(device_log) : \E j \in 1 .. Len(device_log) :
          /\ device_log[i].finish_time_us < device_log[j].finish_time_us
          /\ log_query_throughput(device_log, device_log[i].finish_time_us,
                                  device_log[j].finish_time_us).num
             = device_log[j].bytes * US_PER_SEC

\* The thread holds both locks of the benchmark client.
holds_both(thread) ==
    submit_queue_lock = thread /\ device_log_lock = thread

\* C12 as stated: no thread ever holds submit_queue_lock and
\* device_log_lock at the same time, bench_clean_up included.
C12_NeverBothLocks == ~holds_both("main") /\ ~holds_both("submit")

\* C12: the submission thread never holds both locks; the main thread
\* holds both only inside bench_clean_up, between std::lock and the return;
\* and no thread waits for one of the locks while it holds the other.
C12_LockDiscipline ==
    /\ ~holds_both("submit")
    /\ holds_both("main") => m_pc = "clean_up_clear"
    /\ t_pc = "acquire" => device_log_lock # "submit"
    /\ t_pc = "log_lock" => submit_queue_lock # "submit"
    /\ m_pc = "push" => device_log_lock # "main"
    /\ m_pc = "query" => submit_queue_lock # "main"
    /\ m_pc = "clean_up_usleep" =>
          submit_queue_lock # "main" /\ device_log_lock # "main"

\* C12 witness: bench_clean_up holds both locks while the submission
\* thread, a request done, waits for the log lock.
C12_Witness ==
    /\ holds_both("main")
    /\ m_pc = "clean_up_clear"
    /\ t_pc = "log_lock"

\* The driver created (pushed) an entry of this start time and size since
\* the last clear, i.e. in the running round.
created_this_round(start_time_us, size) ==
    \E j \in 1 .. Len(pushed) :
        pushed[j].start_time_us = start_time_us /\ pushed[j].size = size

\* C13: round isolation.  From the clear of bench_clean_up on, and so
\* when the first request of the next level is enqueued, the submission
\* queue and the device log hold only entries of requests created after
\* that clear: no completion of a request of the level before is appended
\* to the cleared log.
C13_RoundIsolation ==
    /\ \A i \in 1 .. Len(submit_queue) :
          created_this_round(submit_queue[i].start_time_us,
                             submit_queue[i].size)
    /\ \A i \in 1 .. Len(device_log) :
          created_this_round(device_log[i].start_time_us,
                             device_log[i].bytes)

Last(seq) == seq[Len(seq)]

\* C14: every entry the submission thread dequeues yields exactly one
\* log_push_entry: the thread dequeues no entry while one is in progress;
\* an entry is appended to the log only for the entry in progress, after
\* its timing response was read and its usleep() has returned, with bytes
\* = the entry's size and start_time_us = the entry's start_time_us; and
\* the entry in progress ends only with that append (or with the process).
C14_OneLogPerDequeue ==
    [][/\ (popped' # popped /\ popped' # << >>) =>
             /\ ~in_flight.dequeued
             /\ in_flight' = [NoRequest EXCEPT !.entry = Last(popped'),
                                               !.dequeued = TRUE]
       /\ (logged' # logged /\ logged' # << >>) =>
             /\ in_flight.dequeued
             /\ in_flight.replied
             /\ in_flight.slept
             /\ Len(logged') = Len(logged) + 1
             /\ Last(logged').bytes = in_flight.entry.size
             /\ Last(logged').start_time_us = in_flight.entry.start_time_us
             /\ Last(device_log') = Last(logged')
             /\ ~in_flight'.dequeued
       /\ (in_flight.dequeued /\ ~in_flight'.dequeued) =>
             \/ Len(logged') = Len(logged) + 1
             \/ t_pc' = "exited"]_vars

\* C14 witness: two entries were dequeued and logged, each log entry
\* with the start time and the size of its request, and none is in
\* progress.
C14_Witness ==
    /\ Len(logged) >= 2
    /\ Len(popped) = Len(logged)
    /\ ~in_flight.dequeued
    /\ \A i \in 1 .. Len(logged) :
          /\ logged[i].start_time_us = popped[i].start_time_us
          /\ logged[i].bytes = popped[i].size
    /\ logged[1].start_time_us # logged[2].start_time_us

\* C20: the submission thread reads and removes the head of the queue
\* only when the queue is not empty and it holds the queue lock: every
\* dequeue takes the head of a non-empty queue, also after a clear that
\* came between its wake-up and its re-acquisition of the lock.
C20_NeverPopEmpty ==
    [][(popped' # popped /\ popped' # << >>) =>
          /\ Len(submit_queue) > 0
          /\ submit_queue_lock = "submit"
          /\ Last(popped') = Head(submit_queue)
          /\ submit_queue' = Tail(submit_queue)]_vars

\* C20 witness: the thread has dequeued before, has woken up or looped
\* and is about to acquire the queue lock, while bench_clean_up holds the
\* lock of a non-empty queue it is going to clear.
C20_Witness ==
    /\ m_pc = "clean_up_clear"
    /\ t_pc = "acquire"
    /\ submit_queue # << >>
    /\ Len(popped) >= 1

(***************************************************************************)
(* Claims about the server (checked under SpecServer).                     *)
(***************************************************************************)
\* The pages a request covers overlap the pages of another.
pages_overlap(h1, h2) ==
    LET first1 == h1.addr \div PAGE_SIZE
        last1 == first1 + (rounded_size(h1.size) \div PAGE_SIZE) - 1
        first2 == h2.addr \div PAGE_SIZE
        last2 == first2 + (rounded_size(h2.size) \div PAGE_SIZE) - 1
    IN  first1 <= last2 /\ first2 <= last1

\* The i-th request a client sent was a WRITE that completed, the j-th a
\* READ of the same address and length that completed, and no request in
\* between was a write to pages of theirs.
write_then_read(i, j) ==
    /\ i < j
    /\ c_hist[i].done /\ c_hist[j].done
    /\ c_hist[i].header.direction = DIR_WRITE
    /\ c_hist[j].header.direction = DIR_READ
    /\ c_hist[i].header.addr = c_hist[j].header.addr
    /\ c_hist[i].header.size = c_hist[j].header.size
    /\ \A k \in (i + 1) .. (j - 1) :
          \/ c_hist[k].header.direction = DIR_READ
          \/ ~pages_overlap(c_hist[k].header, c_hist[i].header)

\* With payload exchange, a READ after a WRITE returns the bytes written.
PayloadRoundTrip ==
    PAGE_ENABLE_DATA =>
        \A i \in 1 .. Len(c_hist) : \A j \in 1 .. Len(c_hist) :
            write_then_read(i, j) => c_hist[j].data = c_hist[i].sent

\* C4: round-trip identity through the server.  With payload exchange
\* enabled, a WRITE of N > 0 bytes at a page-aligned address followed, with
\* no write to those pages in between, by a READ of the same address and
\* length returns to the client the N bytes written, and both responses
\* carry a processing time > 0.
C4_RoundTrip ==
    PAGE_ENABLE_DATA =>
        \A i \in 1 .. Len(c_hist) : \A j \in 1 .. Len(c_hist) :
            write_then_read(i, j) =>
                /\ c_hist[j].data = c_hist[i].sent
                /\ c_hist[i].time_used_us > 0
                /\ c_hist[j].time_used_us > 0

\* C4 witness: a WRITE of a length that is no multiple of the page size
\* was read back.
C4_Witness ==
    /\ PAGE_ENABLE_DATA
    /\ \E i \in 1 .. Len(c_hist) : \E j \in 1 .. Len(c_hist) :
          /\ write_then_read(i, j)
          /\ c_hist[i].header.size % PAGE_SIZE # 0
          /\ Len(c_hist[j].data) = c_hist[i].header.size

\* The request was refused: the server took the fatal path with this
\* message before a device call, a payload read or a response byte.
refused(i, messages) ==
    /\ s_pc = "exited"
    /\ sys.exit_status = 1
    /\ sys.err \in messages
    /\ i = Len(reqs)
    /\ reqs[i].invoked = 0
    /\ reqs[i].payload_read = 0
    /\ reqs[i].writes = << >>
    /\ ~reqs[i].done

\* C5: alignment enforcement.  Every received header whose addr is no
\* multiple of PAGE_SIZE takes the server to the fatal error path; the
\* device is never invoked for it, no payload is read from the connection
\* and no response byte is written.
C5_AlignmentEnforced ==
    \A i \in 1 .. Len(reqs) :
        reqs[i].header.addr % PAGE_SIZE # 0 =>
            refused(i, {"request header invalid size",
                        "request unaligned logical address"})

\* C5 witness: after a served request, a WRITE header with a positive size
\* and an unaligned address was refused, its payload left unread.
C5_Witness ==
    /\ Len(reqs) >= 2
    /\ reqs[Len(reqs)].header.addr % PAGE_SIZE # 0
    /\ reqs[Len(reqs)].header.size > 0
    /\ reqs[Len(reqs)].header.direction = DIR_WRITE
    /\ sys.err = "request unaligned logical address"
    /\ Len(c2s) = reqs[Len(reqs)].header.size

\* C6: size enforcement.  Every received header whose size field is 0
\* takes the server to the fatal error path before the device is invoked
\* and before any response byte is written.
C6_SizeEnforced ==
    \A i \in 1 .. Len(reqs) :
        reqs[i].header.size = 0 =>
            refused(i, {"request header invalid size"})

\* C6 witness: after a served request, a header of size 0 (and of an
\* unaligned address: the size is checked first) was refused.
C6_Witness ==
    /\ Len(reqs) >= 2
    /\ reqs[Len(reqs)].header.size = 0
    /\ reqs[Len(reqs)].header.addr % PAGE_SIZE # 0
    /\ sys.err = "request header invalid size"
    /\ s_pc = "exited"

\* C7: orderly close.  When the header read of request_loop returns, a
\* result of 0 bytes ends the loop without an error and without the exit
\* of the process; every other result different from REQ_HEADER_LENGTH (a
\* part of a header, or -1) takes the fatal error path; a whole header
\* does not end the loop.  This holds at every header read.  (The exit
\* with no error message is the SIGINT handler's, not a return of read().)
C7_OrderlyClose ==
    [][(/\ s_pc = "read_header" /\ s_pc' # "read_header"
        /\ ~(s_pc' = "exited" /\ sys'.err = "")) =>
          IF s'.rbytes = 0
          THEN s_pc' = "conn_ended" /\ sys' = sys
          ELSE IF s'.rbytes # REQ_HEADER_LENGTH
          THEN /\ s_pc' = "exited"
               /\ sys' = [err |-> "request header wrong length",
                          exit_status |-> 1]
          ELSE s_pc' # "conn_ended"]_vars

\* C7 witness: the loop ended on a read of 0 bytes after a served request.
C7_Witness ==
    /\ s_pc = "conn_ended"
    /\ s.rbytes = 0
    /\ sys.exit_status = -1
    /\ Len(reqs) >= 1
    /\ reqs[Len(reqs)].done

\* The writes of a request are the first ones of a frame of these kinds:
\* a payload write carries header.size bytes, a timing write one
\* processing-time field.
frame_prefix(r, kinds) ==
    /\ Len(r.writes) <= Len(kinds)
    /\ \A k \in 1 .. Len(r.writes) :
          /\ r.writes[k].kind = kinds[k]
          /\ Len(r.writes[k].bytes) =
                IF kinds[k] = "data" THEN r.header.size ELSE TIME_USED_BYTES

\* The writes of a request are a whole frame of these kinds.
frame_whole(r, kinds) ==
    frame_prefix(r, kinds) /\ Len(r.writes) = Len(kinds)

frame_kinds(header) ==
    IF header.direction = DIR_READ /\ PAGE_ENABLE_DATA
    THEN <<"data", "time">> ELSE <<"time">>

C9_TimePositive ==
    \A i \in 1 .. Len(reqs) : \A k \in 1 .. Len(reqs[i].writes) :
        reqs[i].writes[k].kind = "time" =>
            le_decode(reqs[i].writes[k].bytes) > 0

\* The processing-time fields among the writes of a request.
time_writes(r) == {k \in 1 .. Len(r.writes) : r.writes[k].kind = "time"}

\* All bytes written for the requests i .. Len(reqs), in order.
RECURSIVE written_bytes(_, _)
written_bytes(i, k) ==
    IF i > Len(reqs) THEN << >>
    ELSE IF k > Len(reqs[i].writes) THEN written_bytes(i + 1, 1)
    ELSE reqs[i].writes[k].bytes \o written_bytes(i, k + 1)

IsSuffix(suffix, seq) ==
    /\ Len(suffix) <= Len(seq)
    /\ suffix = SubSeq(seq, Len(seq) - Len(suffix) + 1, Len(seq))

\* C10: dispatch cycle.  On one connection every valid header that is
\* served has caused exactly one device call and exactly one
\* processing-time response, written after the call and last; the server
\* is at a header read only when the response of every earlier header has
\* been written, and never receives a header before; the bytes on the
\* connection are the responses in the order of the requests.
C10_DispatchCycle ==
    /\ \A i \in 1 .. Len(reqs) :
          /\ reqs[i].invoked <= 1
          /\ Cardinality(time_writes(reqs[i])) <= reqs[i].invoked
          /\ reqs[i].done <=>
                /\ reqs[i].invoked = 1
                /\ time_writes(reqs[i]) = {Len(reqs[i].writes)}
          /\ (i < Len(reqs) \/ s_pc \in {"read_header", "conn_ended", "accept"})
                => reqs[i].done
    /\ IsSuffix(s2c, written_bytes(1, 1))

\* C10 witness: the server is back at the header read after it served a
\* READ and then a WRITE on one connection.
C10_Witness ==
    /\ s_pc = "read_header"
    /\ Len(reqs) >= 2
    /\ reqs[1].header.direction = DIR_READ
    /\ reqs[2].header.direction = DIR_WRITE
    /\ reqs[1].done /\ reqs[2].done

\* The server process has ended.
server_ended == s_pc \in {"exited", "killed"}

\* Nothing is served by a process that has ended: no header is received,
\* no device call is made and no byte is written.
nothing_served_after_end ==
    server_ended =>
        /\ s_pc' = s_pc
        /\ reqs' = reqs
        /\ ssd_handle' = ssd_handle
        /\ Len(s2c') <= Len(s2c)
        /\ Len(c2s') >= Len(c2s)

\* Every exit through error() or the SIGINT handler is the shutdown
\* sequence: the listening socket closed, the socket file removed, exit
\* status 1, and nothing served afterwards.
ShutdownOnErrorOrInterrupt ==
    /\ [](s_pc = "exited" =>
            ssock = "closed" /\ ~sock_file /\ sys.exit_status = 1)
    /\ [][nothing_served_after_end]_vars

\* C15: from every state after startup, whatever ends the server process
\* (a fatal error or an interrupt signal) leads to the same shutdown: the
\* listening socket is closed and the socket file removed before the
\* process ends, the exit status is 1, and no request is served after it.
C15_Shutdown ==
    /\ [](server_ended =>
            ssock = "closed" /\ ~sock_file /\ sys.exit_status = 1)
    /\ [][nothing_served_after_end]_vars

\* The positions of request_loop.
LoopPositions ==
    {"read_header", "read_data", "process_write", "process_read",
     "respond_data", "respond_time"}

\* C16: the server serves at most one connection at a time.  A
\* connection is open exactly while request_loop runs or has just
\* returned; it is accepted only in main's accept(), with no request_loop
\* running; no client connects while one is served; after request_loop
\* returns (orderly close) the connection is closed and the server is back
\* in accept(); and neither the close nor the next accept changes the
\* device, so the next client is served with the same device state.
C16_OneConnection ==
    /\ [](csock = "open" <=> s_pc \in LoopPositions \cup {"conn_ended"})
    /\ [][/\ (csock # "open" /\ csock' = "open") =>
                /\ s_pc = "accept"
                /\ csock = "pending"
                /\ s_pc' = "read_header"
                /\ ssd_handle' = ssd_handle
          /\ csock = "open" => nconn' = nconn
          /\ (s_pc = "conn_ended" /\ s_pc' # "conn_ended") =>
                \/ s_pc' = "exited"
                \/ /\ s_pc' = "accept"
                   /\ csock' = "none"
                   /\ ssd_handle' = ssd_handle
                   /\ sys' = sys]_vars

\* C16 witness: on the second connection the first request, a READ, was
\* served with the bytes a WRITE of an earlier connection had stored.
C16_Witness ==
    /\ nconn = 2
    /\ PAGE_ENABLE_DATA
    /\ Len(reqs) >= 1
    /\ reqs[1].done
    /\ reqs[1].header.direction = DIR_READ
    /\ \E k \in 1 .. Len(c_hist) :
          /\ c_hist[k].done
          /\ c_hist[k].header.direction = DIR_WRITE
          /\ c_hist[k].header.start_time_us < reqs[1].header.start_time_us
          /\ c_hist[k].sent # << >>
          /\ c_hist[k].sent = reqs[1].writes[1].bytes

\* C17: when the device returns a non-positive processing time for a
\* READ, the server takes the fatal path without having written any byte
\* of the response of that request, neither payload nor timing field.
C17_NoPartialResponse ==
    (/\ s_pc = "exited"
     /\ sys.err = "negative processing time"
     /\ Len(reqs) > 0
     /\ reqs[Len(reqs)].header.direction = DIR_READ) =>
        reqs[Len(reqs)].writes = << >>

\* The bytes begin a header a client wrote: they are the first bytes of
\* the encoding of one of the headers the clients choose from.
at_header_start(bytes) ==
    \/ bytes = << >>
    \/ \E n \in 1 .. nreq : \E header \in HeaderMenu(n) :
          Take(bytes, REQ_HEADER_LENGTH)
          = Take(header_bytes(header), Len(Take(bytes, REQ_HEADER_LENGTH)))

\* The server reads its next header at the first byte of a client header;
\* the client reads the payload of a READ at the first byte the server
\* wrote for that request, a payload; and it reads the processing time
\* at the first byte of the timing field of its request.
frame_sync ==
    /\ s_pc = "read_header" => at_header_start(c2s)
    /\ (c_pc = "recv_data" /\ s2c # << >>) =>
          /\ Len(reqs) > 0
          /\ reqs[Len(reqs)].header = c.header
          /\ reqs[Len(reqs)].writes[1].kind = "data"
          /\ s2c = written_bytes(Len(reqs), 1)
    /\ (c_pc = "recv_time" /\ s2c # << >>) =>
          /\ Len(reqs) > 0
          /\ reqs[Len(reqs)].header = c.header
          /\ Last(reqs[Len(reqs)].writes).kind = "time"
          /\ s2c = Last(reqs[Len(reqs)].writes).bytes

\* With payload exchange the two sides stay synchronised.
FrameSyncWithPayload == PAGE_ENABLE_DATA => frame_sync

\* C18: frame synchronisation.  With a client that sends a header, then
\* size payload bytes for a WRITE, and expects size payload bytes and the
\* timing field for a READ, every header read of the server starts at the
\* first byte of a client header and every read of the client at the first
\* byte of the field it expects, with payload exchange enabled or disabled.
C18_FrameSync == frame_sync

(***************************************************************************)
(* Claims about functions applied on their own (checked under SpecCalls).  *)
(***************************************************************************)
\* C11: log_query_throughput(begin, end) called with end = begin returns
\* a defined value without dividing by zero, and called with end < begin
\* it does not divide by the wrapped-around unsigned difference end - begin.
C11_NoZeroDivision ==
    (/\ call_pc = "returned"
     /\ call_args.fn = "log_query_throughput"
     /\ call_args.end_time_us <= call_args.begin_time_us) =>
        /\ call_ret.den # 0
        /\ call_ret.den
           # 1024 * (Uint64Modulus + call_args.end_time_us
                                   - call_args.begin_time_us)

\* C19: page rounding.  For every header size s >= 1 of the unsigned
\* field the byte length handed to the device is the smallest multiple of
\* PAGE_SIZE that is >= s, so the page count is ceil(s / PAGE_SIZE) and at
\* least 1, and a multiple of PAGE_SIZE is passed unchanged.
C19_PageRounding ==
    (call_pc = "returned" /\ call_args.fn = "rounding") =>
        /\ call_ret.size % PAGE_SIZE = 0
        /\ call_ret.size >= call_args.header_size
        /\ call_ret.size - call_args.header_size < PAGE_SIZE
        /\ call_ret.npages
           = (call_args.header_size + PAGE_SIZE - 1) \div PAGE_SIZE
        /\ call_ret.npages >= 1
        /\ call_args.header_size % PAGE_SIZE = 0 =>
              call_ret.size = call_args.header_size

(***************************************************************************)
(* Claims about the threads of the asynchronous client (lt-bench.cpp),     *)
(* checked under SpecBench, the liveness ones under SpecBenchFair.         *)
(***************************************************************************)
\* The worker is suspended on submit_queue_cv while the queue holds work.
waiting_with_work == t_pc = "wait" /\ submit_queue # << >>

\* Every push that found the worker suspended has notified it.
C21_Signalled == waiting_with_work => cv_notified

\* C21: no lost wake-up.  A worker suspended (or about to suspend) on
\* submit_queue_cv when an entry is pushed has been notified, and under
\* fair scheduling with a server that answers it wakes and dequeues an
\* entry, unless a clear empties the queue first: it never waits forever
\* on a non-empty queue.
C21_NoLostWakeup ==
    /\ []C21_Signalled
    /\ waiting_with_work ~> (t_pc = "submit" \/ submit_queue = << >>)

\* An entry was pushed while the worker was suspended on the condition
\* variable.
C21_Witness == waiting_with_work /\ cv_waiting /\ cv_notified

\* The worker is in a network round trip, in the emulated-latency sleep or
\* in a log append (lt-bench.cpp 305-315).
worker_in_io == t_pc \in {"submit", "recv", "usleep", "log_lock", "log_push"}

\* The positions at which a thread is inside a critical section of
\* submit_queue_lock: one dequeue (or the test of the wait predicate), one
\* push, one clear.
queue_lock_sections ==
    /\ submit_queue_lock = "submit" <=> t_pc = "locked"
    /\ submit_queue_lock = "main" <=> m_pc \in {"push_back", "clean_up_clear"}

\* C22: a push is never delayed by the worker's I/O.  While the worker is
\* in a round trip, the latency sleep or a log append it does not hold
\* submit_queue_lock; the lock is held only inside one push, one dequeue or
\* one clear; and a push appends whatever the length of the queue.
C22_PushNotDelayed ==
    /\ [](worker_in_io => submit_queue_lock # "submit")
    /\ []queue_lock_sections
    /\ [][m_pc = "push_back" /\ m_pc' = "usleep"
            => submit_queue' = Append(submit_queue, m.entry)]_vars

\* The driver is inside a push on a non-empty queue while the worker
\* waits for the reply of the server.
C22_Witness ==
    /\ t_pc = "recv"
    /\ m_pc = "push_back"
    /\ submit_queue_lock = "main"
    /\ Len(submit_queue) >= 1

\* C23: the activity log is always ordered by finish time.  For consecutive
\* entries a before b of device_log, a.finish_time_us <= b.finish_time_us,
\* and no entry finished later than the clock shows (the finish time is
\* sampled by the one appending thread before it takes the log lock).
C23_LogOrdered ==
    /\ \A i \in 1 .. Len(device_log) - 1 :
          device_log[i].finish_time_us <= device_log[i + 1].finish_time_us
    /\ \A i \in 1 .. Len(device_log) : device_log[i].finish_time_us <= now

\* The log holds two entries that finished at different times.
C23_Witness ==
    /\ Len(device_log) >= 2
    /\ device_log[1].finish_time_us < device_log[2].finish_time_us

\* A thread uses the socket: main inside bench_fill_device (602-613), the
\* submission thread once it exists (it alone calls _submit_* afterwards).
main_uses_socket == m_pc \in {"fill", "fill_recv", "fill_usleep"}
thread_uses_socket == t_pc \in {"submit", "recv"}

\* A thread is in the middle of an exchange: the request is written, the
\* reply not yet read.
main_in_exchange == m_pc = "fill_recv"
thread_in_exchange == t_pc = "recv"

\* C24: connection exclusivity.  Never are both threads in the middle of an
\* exchange; while main fills the device the submission thread does not
\* exist; the thread is started only when every fill write has completed;
\* and from then on main never uses the socket again.
C24_ConnectionExclusive ==
    /\ [](~(main_in_exchange /\ thread_in_exchange))
    /\ [](main_uses_socket => t_pc = "not_started")
    /\ [](thread_uses_socket => ~main_uses_socket)
    /\ [][t_pc = "not_started" /\ t_pc' # "not_started" /\ m_pc' # "exited"
            => /\ m.fill_i = FLASH_SPACE \div PAGE_SIZE
               /\ ~main_uses_socket']_vars
    /\ [][t_pc # "not_started" /\ m_pc' # "exited" => ~main_uses_socket']_vars

\* The submission thread is in an exchange with the server, after main
\* wrote every page of the device on the same socket.
C24_Witness ==
    /\ thread_in_exchange
    /\ m.fill_i = FLASH_SPACE \div PAGE_SIZE
    /\ m.bench = BENCH_SEQ_READ

\* The thread that takes the step: every step of main changes m_pc, every
\* step of the submission thread changes t_pc; the end of the process
\* (which destroys both containers) changes both.
main_acts == m_pc' # m_pc /\ t_pc' = t_pc
thread_acts == t_pc' # t_pc /\ m_pc' = m_pc

\* The positions at which a thread reads or modifies a container hold the
\* container's lock: the wait predicate, front and pop_front; push_back;
\* the query scan; the log append; the two clears.
access_positions_locked ==
    /\ t_pc = "locked" => submit_queue_lock = "submit"
    /\ m_pc = "push_back" => submit_queue_lock = "main"
    /\ m_pc = "query_scan" => device_log_lock = "main"
    /\ t_pc = "log_push" => device_log_lock = "submit"
    /\ m_pc = "clean_up_clear"
          => submit_queue_lock = "main" /\ device_log_lock = "main"

\* C25: data-race freedom.  Every step of a thread that modifies
\* submit_queue is taken with submit_queue_lock held by that thread, every
\* step that modifies device_log with device_log_lock held by that thread,
\* and at every position where a thread reads one of the two containers it
\* holds the container's lock.
C25_DataRaceFree ==
    /\ []access_positions_locked
    /\ [][submit_queue' # submit_queue
            => \/ main_acts /\ submit_queue_lock = "main"
               \/ thread_acts /\ submit_queue_lock = "submit"
               \/ m_pc' = "exited"]_vars
    /\ [][device_log' # device_log
            => \/ main_acts /\ device_log_lock = "main"
               \/ thread_acts /\ device_log_lock = "submit"
               \/ m_pc' = "exited"]_vars

\* The driver scans a non-empty log under the lock while the worker waits
\* for the lock with an entry to append.
C25_Witness ==
    /\ m_pc = "query_scan"
    /\ t_pc = "log_lock"
    /\ device_log # << >>
    /\ device_log_lock = "main"

\* A thread is at a lock acquisition the run still lets it make.
thread_acquiring == t_pc \in {"acquire", "log_lock"}
main_acquiring ==
    \/ m_pc = "query"
    \/ m_pc = "push" /\ Len(pushed) < FairMaxPushes
    \/ m_pc = "clean_up_usleep" /\ m.wake <= MaxTime

\* Each thread holds one of the two locks and waits for the other.
circular_wait ==
    \/ /\ submit_queue_lock = "main" /\ device_log_lock = "submit"
       /\ m_pc \in {"query", "clean_up_usleep"} /\ t_pc = "acquire"
    \/ /\ submit_queue_lock = "submit" /\ device_log_lock = "main"
       /\ m_pc \in {"push", "clean_up_usleep"} /\ t_pc = "log_lock"

\* A thread that waits for a lock holds none.
no_hold_and_wait ==
    /\ t_pc \in {"acquire", "log_lock"}
          => submit_queue_lock # "submit" /\ device_log_lock # "submit"
    /\ m_pc \in {"query", "push", "clean_up_usleep"}
          => submit_queue_lock # "main" /\ device_log_lock # "main"

\* C26: deadlock freedom.  No reachable state has each thread holding one
\* of the two locks and waiting for the other (a waiting thread holds no
\* lock at all), and under fair scheduling every lock acquisition of the
\* worker (queue lock, log lock) and of the driver (query, push, the two
\* locks of the clean-up) eventually succeeds, unless the process ends.
C26_DeadlockFree ==
    /\ [](~circular_wait)
    /\ []no_hold_and_wait
    /\ thread_acquiring ~> t_pc \in {"locked", "log_push", "exited"}
    /\ main_acquiring
          ~> m_pc \in {"query_scan", "push_back", "clean_up_clear", "exited"}

\* The cooldown of bench_clean_up is over and the driver waits for both
\* locks while the worker holds the log lock for an append.
C26_Witness ==
    /\ m_pc = "clean_up_usleep"
    /\ m.wake <= now
    /\ m.bench = BENCH_SEQ_READ
    /\ t_pc = "log_push"
    /\ device_log_lock = "submit"

(***************************************************************************)
(* Claims about the addresses and the validation of the benchmark clients. *)
(***************************************************************************)
\* The addresses issued so far are page-aligned and inside [0, capacity),
\* and each one follows its predecessor by one page, capacity - PAGE_SIZE
\* being followed by 0.
seq_addresses(issued, capacity) ==
    /\ \A i \in 1 .. Len(issued) :
          /\ issued[i] % PAGE_SIZE = 0
          /\ 0 <= issued[i] /\ issued[i] < capacity
    /\ \A i \in 1 .. Len(issued) - 1 :
          issued[i + 1] = (issued[i] + PAGE_SIZE) % capacity

\* The part of C27 about la-bench.cpp: it holds.
LaSequentialAddresses ==
    call_args.fn = "la_bench_seq_read"
        => seq_addresses(call_ret.issued, FLASH_SPACE)

\* The part of C27 about lt-bench.cpp (under SpecBench): every entry pushed
\* by a sequential benchmark has the address of the driver, which is
\* page-aligned and inside the space, and the address advances by one page
\* (modulo FLASH_SPACE) after each push.
LtSequentialAddresses ==
    /\ [](m.addr % PAGE_SIZE = 0 /\ m.addr < FLASH_SPACE)
    /\ [][m_pc = "push_back" /\ m_pc' = "usleep" /\ bench_is_seq(m.bench)
            => Last(submit_queue').addr = m.addr]_vars
    /\ [][m_pc = "usleep" /\ m_pc' \notin {"usleep", "exited"}
            /\ bench_is_seq(m.bench)
            => m'.addr = (m.addr + PAGE_SIZE) % FLASH_SPACE]_vars

\* C27: sequential address generation.  In every sequential benchmark the
\* address of every issued request is a multiple of PAGE_SIZE in
\* [0, capacity), the address of each request is that of its predecessor
\* plus one page, 0 after capacity - PAGE_SIZE, also from the last request
\* of an intensity level to the first of the next.
C27_SequentialAddresses ==
    /\ LaSequentialAddresses
    /\ call_args.fn = "tp_bench_seq_read"
          => seq_addresses(call_ret.issued, FLASH_CAPACITY)

\* C28: random address generation.  Every address the uniformly-random
\* read and write benchmarks produce (the entry being built and the ones
\* pushed in the round) is a multiple of PAGE_SIZE with 0 <= addr and
\* addr + PAGE_SIZE <= FLASH_SPACE, whatever page index the distribution
\* returns.
C28_RandomAddresses ==
    m.bench \in {BENCH_RND_READ, BENCH_RND_WRITE}
        => \A entry \in {m.entry} \cup {pushed[i] : i \in 1 .. Len(pushed)} :
              /\ entry.addr % PAGE_SIZE = 0
              /\ 0 <= entry.addr
              /\ entry.addr + PAGE_SIZE <= FLASH_SPACE

\* A request-issuing function has returned or has ended the process.
submit_done == call_pc = "returned" /\ call_args.fn \in SubmitFunctions

\* C29: client-side validation.  issue_read / issue_write / _submit_read /
\* _submit_write called with an address that is not a multiple of
\* PAGE_SIZE, or with size 0, end the client through error() without a
\* byte written to the connection; with any other arguments the header
\* they write passes the two checks of the server's validation.
C29_ClientValidation ==
    submit_done =>
        /\ (call_args.addr % PAGE_SIZE # 0 \/ call_args.size = 0)
              => call_ret.exited /\ call_ret.sent = << >>
        /\ ~(call_args.addr % PAGE_SIZE # 0 \/ call_args.size = 0)
              => ~call_ret.exited /\ Len(call_ret.sent) = REQ_HEADER_LENGTH
        /\ call_ret.sent # << >>
              => /\ ~invalid_size(header_cast(call_ret.sent))
                 /\ ~unaligned_addr(header_cast(call_ret.sent))
                 /\ header_cast(call_ret.sent).addr = call_args.addr
                 /\ header_cast(call_ret.sent).size = call_args.size

\* _submit_write was called with a misaligned address and a size of one
\* page, and has ended the client.
C29_Witness ==
    /\ submit_done
    /\ call_args.fn = "_submit_write"
    /\ call_args.addr % PAGE_SIZE # 0
    /\ call_args.size = PAGE_SIZE
    /\ call_ret.exited

\* C30: every queue entry is submitted at most once and never after being
\* cleared.  A dequeue removes the head of the queue and makes it the one
\* entry in progress, none being in progress before; a header is sent only
\* for the entry in progress, which was dequeued and not sent before; the
\* entry is logged after exactly one send; and the clear of bench_clean_up
\* empties the queue without handing any of its entries to the worker, so
\* an entry is either dequeued once and sent once, or removed unsent.
C30_SubmittedOnce ==
    /\ [](in_flight.sends <= 1)
    /\ [](t_pc \in {"recv", "usleep", "log_lock", "log_push"}
            => in_flight.dequeued /\ in_flight.sends = 1)
    /\ [][popped' # popped /\ popped' # << >>
            => /\ submit_queue # << >>
               /\ ~in_flight.dequeued
               /\ in_flight' = [NoRequest EXCEPT !.entry = Head(submit_queue),
                                                 !.dequeued = TRUE]
               /\ submit_queue' = Tail(submit_queue)
               /\ popped' = Append(popped, Head(submit_queue))]_vars
    /\ [][in_flight'.sends # in_flight.sends /\ in_flight'.dequeued
            => /\ t_pc = "submit"
               /\ in_flight.dequeued
               /\ in_flight.sends = 0
               /\ in_flight'.sends = 1
               /\ in_flight.entry
                     = req_entry(t.direction, t.addr, t.size, t.start_time_us)
               /\ UNCHANGED <<submit_queue, t>>]_vars
    /\ [][m_pc = "clean_up_clear" /\ m_pc' \notin {"clean_up_clear", "exited"}
            => /\ submit_queue' = << >>
               /\ UNCHANGED <<in_flight, t, t_pc>>]_vars

\* The header of the entry in progress was sent once, and the clear of
\* bench_clean_up is about to remove the entries still queued.
C30_Witness ==
    /\ in_flight.sends = 1
    /\ t_pc = "recv"
    /\ m_pc = "clean_up_clear"
    /\ submit_queue # << >>

(***************************************************************************)
(* Claims about the throughput samples of the asynchronous driver.         *)
(***************************************************************************)
\* The driver is in a call log_query_throughput(cur_time_us -
\* log_interval_us, cur_time_us): before the lock, or in the scan.
in_query == m_pc \in {"query", "query_scan"}

\* C31: every throughput query of the driver has a strictly positive
\* window.  At each call log_interval_us is above the threshold (100000)
\* and at most cur_time_us - base_time_us, so begin = cur_time_us -
\* log_interval_us does not wrap, lies at or after the base time of the
\* round and before end, and the divisor of the query is not zero; every
\* sample stored in the round has a positive divisor.
C31_PositiveWindow ==
    /\ in_query =>
          /\ m.log_interval_us > LOG_INTERVAL_MIN_US
          /\ m.log_interval_us <= m.cur_time_us - m.base_time_us
          /\ U64(m.cur_time_us - m.log_interval_us)
                = m.cur_time_us - m.log_interval_us
          /\ m.base_time_us <= U64(m.cur_time_us - m.log_interval_us)
          /\ U64(m.cur_time_us - m.log_interval_us) < m.cur_time_us
          /\ log_query_throughput(device_log,
                                  U64(m.cur_time_us - m.log_interval_us),
                                  m.cur_time_us).den > 0
    /\ \A i \in 1 .. Len(m.throughputs) : m.throughputs[i].den > 0

\* The driver scans a non-empty log over a window that began after the
\* base time of the round.
C31_Witness ==
    /\ m_pc = "query_scan"
    /\ device_log # << >>
    /\ m.base_time_us < m.cur_time_us - m.log_interval_us
    /\ m.throughputs # << >>

\* C32: each intensity round records at least one throughput sample
\* before it ends.  When the do-loop of a round is left (cur_time_us has
\* reached base_time_us + 5 s) the sample list of the round is not empty,
\* whatever the times the iterations read from the non-decreasing clock,
\* so the average divides by a size of at least 1.
C32_SampleBeforeRoundEnd ==
    /\ [](m_pc = "round_end" => Len(m.throughputs) >= 1)
    /\ [][m_pc = "usleep" /\ m_pc' = "round_end"
            => /\ m.cur_time_us
                     >= m.base_time_us + US_PER_SEC * SECS_PER_ROUND
               /\ m'.throughputs = m.throughputs
               /\ m.throughputs # << >>]_vars

\* A round ends with exactly one sample, taken in its last iteration.
C32_Witness ==
    /\ m_pc = "round_end"
    /\ Len(m.throughputs) = 1
    /\ m.log_interval_us = 0

(***************************************************************************)
(* Claims about the dispatch of the server.                                *)
(***************************************************************************)
\* The server has accepted the header it has just read: it passed the
\* size and the alignment check.
header_accepted ==
    /\ s_pc = "read_header"
    /\ s_pc' \in {"process_read", "read_data", "process_write"}

\* C33: the server does not validate the direction field.  A header that
\* passes the size and alignment checks is served as a READ when its
\* direction is 0 and as a WRITE for every other value, 1 or not: the
\* server reads header.size payload bytes (when payload is exchanged) and
\* calls process_write; process_read is reached with direction 0 only.
C33_DirectionNotValidated ==
    /\ [][header_accepted
            => /\ ~invalid_size(s'.header) /\ ~unaligned_addr(s'.header)
               /\ s'.header.direction = DIR_READ => s_pc' = "process_read"
               /\ s'.header.direction # DIR_READ
                     => s_pc' = IF PAGE_ENABLE_DATA THEN "read_data"
                                ELSE "process_write"]_vars
    /\ [](s_pc \in {"process_read", "respond_data"}
            => s.header.direction = DIR_READ)
    /\ [](s_pc \in {"read_data", "process_write"}
            => s.header.direction # DIR_READ)
    /\ [][s_pc = "read_data" /\ s_pc' = "process_write"
            => /\ Len(c2s) - Len(c2s') = s.header.size
               /\ s'.rbytes = s.header.size]_vars
    /\ [][s_pc = "process_write" /\ s_pc' = "respond_time"
            => ssd_handle' =
                  IF PAGE_ENABLE_DATA
                  THEN ssd_write(ssd_handle, s.header.addr \div PAGE_SIZE,
                                 s.size \div PAGE_SIZE, s.data)
                  ELSE ssd_handle]_vars

\* A header of direction 2 has passed the checks, its payload of one page
\* was read, and the server is about to call process_write for it.
C33_Witness ==
    /\ s_pc = "process_write"
    /\ s.header.direction \notin {DIR_READ, DIR_WRITE}
    /\ PAGE_ENABLE_DATA
    /\ s.rbytes = s.header.size
    /\ s.header.size = PAGE_SIZE

(***************************************************************************)
(* Claims about the clean-up of a server that fails while it starts.       *)
(***************************************************************************)
\* The server's start-up has returned from clean_up() after a failure.
startup_failed ==
    /\ call_pc = "returned"
    /\ call_args.fn = "main"
    /\ call_ret.exited

\* C34: clean-up touches only what the server created.  When the start-up
\* fails before the listening socket exists (socket() fails), clean_up
\* closes no descriptor the server did not open; when bind() fails, it
\* removes no path the server did not create.
C34_CleanUpOwnOnly ==
    startup_failed =>
        /\ call_args.socket_ret < 0 => call_ret.closed \subseteq call_ret.opened
        /\ (call_args.socket_ret >= 0 /\ call_args.bind_ret # 0)
              => call_ret.removed # "foreign"

====
